---- MODULE Spec2Model ----
(***************************************************************************)
(* A model of the pattern examples of the repository.  Every example is    *)
(* an independent object graph, so every example has its own variables,    *)
(* its own actions and its own specification (SpecCalc, SpecObserver, ...) *)
(* that leaves the variables of the other examples alone.                  *)
(***************************************************************************)
EXTENDS Integers, Sequences, FiniteSets, TLC

VARIABLES
  \* Adapter: OldCalc / NewCalc / CalcAdapter
  calcArgs, oldOut, adapterOut,
  \* Singleton 1: Database
  dbInstance, dbNextId, dbCtorRuns, dbReturned, dbConsole,
  \* Singleton 3: Config / SingletonProxy
  cfgInstance, cfgNextId, cfgSettings, cfgInits, cfgReturned, cfgWrites,
  \* Singleton 4: CacheService
  csInstance, csNextId, csCache, csRefs, csLastSet, csGot,
  \* Observer: NewsPublisher / ReactiveState / Subject
  obsClass, obsSubs, obsValue, obsPc, obsIter, obsI, obsArg, obsDelivered,
  obsRounds, obsAtChange, obsGone, obsGoneAtChange, obsPrevRound,
  obsUnsubSince, obsUnsubBetween, obsPushed,
  \* Decorator 1: Text and its decorators
  txHeap, txOut,
  \* Decorator 2: Coffee and its decorators
  cofHeap, cofOut,
  \* Decorator 3: cacheDecorator(heavyCalculation)
  mcCache, mcCalls, mcInvoked,
  \* Facade 1: AudioPlayerFacade
  apCalls, apSongs,
  \* Facade 2: ApiService
  apiCache, apiHttp, apiCalls,
  \* Template method 1: Beverage
  bvCalls,
  \* Template method 2: FileProcessor
  fpCalls,
  \* Strategy 1: ShoppingCart
  cartStrategy, cartAmount, cartItems, cartPays, cartLastSet, cartCheckouts,
  \* Strategy 2: FormValidator
  fvStrategy, fvRequested, fvLog, fvThrown,
  \* Strategy 3: Sorter
  soStrategy, soNumbers, soRequested, soOut,
  \* Builder 2: RequestBuilder
  rbThis, rbRet, rbBuilt, rbLog,
  \* Abstract factory: GUIFactory
  guiRuns,
  \* Factory method: Logistics
  lgCalls,
  \* Facade 3: TaskFacade
  tkRecords, tkLog,
  \* Decorator 4: TaskIndication decorators
  indUrgency, indIncident, indRequest, indQueue, indInfo, indLog,
  \* Adapter 2: RectangleAdapter
  rcArgs, rcOut, rcBack,
  \* Observer 3: the counters of the Subject example
  stObservers, stObjs, stFired, stThroughout

calcVars == <<calcArgs, oldOut, adapterOut>>
dbVars   == <<dbInstance, dbNextId, dbCtorRuns, dbReturned, dbConsole>>
cfgVars  == <<cfgInstance, cfgNextId, cfgSettings, cfgInits, cfgReturned,
             cfgWrites>>
csVars   == <<csInstance, csNextId, csCache, csRefs, csLastSet, csGot>>

obsVars  == <<obsClass, obsSubs, obsValue, obsPc, obsIter, obsI, obsArg,
             obsDelivered, obsRounds, obsAtChange, obsGone, obsGoneAtChange,
             obsPrevRound, obsUnsubSince, obsUnsubBetween, obsPushed>>

txVars   == <<txHeap, txOut>>
cofVars  == <<cofHeap, cofOut>>
mcVars   == <<mcCache, mcCalls, mcInvoked>>
apVars   == <<apCalls, apSongs>>
apiVars  == <<apiCache, apiHttp, apiCalls>>
bvVars   == <<bvCalls>>
fpVars   == <<fpCalls>>
cartVars == <<cartStrategy, cartAmount, cartItems, cartPays, cartLastSet,
             cartCheckouts>>
fvVars   == <<fvStrategy, fvRequested, fvLog, fvThrown>>
soVars   == <<soStrategy, soNumbers, soRequested, soOut>>
rbVars   == <<rbThis, rbRet, rbBuilt, rbLog>>
guiVars  == <<guiRuns>>
lgVars   == <<lgCalls>>
tkVars   == <<tkRecords, tkLog>>
indVars  == <<indUrgency, indIncident, indRequest, indQueue, indInfo, indLog>>
rcVars   == <<rcArgs, rcOut, rcBack>>
stVars   == <<stObservers, stObjs, stFired, stThroughout>>

vars == <<calcVars, dbVars, cfgVars, csVars, obsVars, txVars, cofVars,
          mcVars, apVars, apiVars, bvVars, fpVars, cartVars, fvVars, soVars,
          rbVars, guiVars, lgVars, tkVars, indVars, rcVars, stVars>>

(***************************************************************************)
(* JavaScript values shared by the examples.                               *)
(***************************************************************************)
\* A JavaScript number: a finite integer, NaN, or +/- Infinity.
JsFin(n) == <<"fin", n>>
JsNaN    == <<"nan", 0>>
JsInf    == <<"inf", 1>>
JsNegInf == <<"inf", -1>>

\* -x on JavaScript numbers.
JsNeg(a) == IF a[1] = "nan" THEN JsNaN ELSE <<a[1], 0 - a[2]>>

\* x + y on JavaScript numbers (IEEE 754: NaN is absorbing, Infinity +
\* -Infinity is NaN, Infinity absorbs every finite number).
JsAdd(a, b) ==
  IF a[1] = "nan" \/ b[1] = "nan" THEN JsNaN
  ELSE IF a[1] = "inf" /\ b[1] = "inf"
       THEN (IF a[2] = b[2] THEN a ELSE JsNaN)
  ELSE IF a[1] = "inf" THEN a
  ELSE IF b[1] = "inf" THEN b
  ELSE JsFin(a[2] + b[2])

\* x - y on JavaScript numbers.
JsSub(a, b) == JsAdd(a, JsNeg(b))

\* undefined as an object reference (object ids start at 1); !ref is true
\* exactly for it.
Undefined == 0
Falsy(ref) == ref = Undefined

(***************************************************************************)
(* Adapter: OldCalc, NewCalc, CalcAdapter.                                 *)
(***************************************************************************)
MaxInt == 3

CalcInts == (0 - MaxInt .. MaxInt) \cup {10, 25}
CalcOps  == {"add", "sub", "mul", ""}

OldCalc_operations(t1, t2, operation) ==
  CASE operation = "add" -> JsAdd(t1, t2)
    [] operation = "sub" -> JsSub(t1, t2)
    [] OTHER -> JsNaN

NewCalc_add(t1, t2) == JsAdd(t1, t2)

NewCalc_subSwapped(t1, t2) == JsSub(t2, t1)
NewCalc_sub(t1, t2) == JsSub(t1, t2)

CalcAdapter_operations(t1, t2, operation) ==
  CASE operation = "add" -> NewCalc_add(t1, t2)
    [] operation = "sub" -> NewCalc_sub(t1, t2)
    [] OTHER -> JsNaN

NoCall == <<"none", 0>>

CalcFrame == UNCHANGED <<dbVars, cfgVars, csVars, obsVars, txVars, cofVars,
    mcVars, apVars, apiVars, bvVars, fpVars, cartVars, fvVars, soVars, rbVars,
    guiVars, lgVars, tkVars, indVars, rcVars, stVars>>

CalcInit ==
  /\ calcArgs = <<0, 0, "">>
  /\ oldOut = NoCall
  /\ adapterOut = NoCall

\* print(oldCalc.operations(t1, t2, op))
OldCalc_call ==
  \E t1 \in CalcInts, t2 \in CalcInts, op \in CalcOps :
    /\ calcArgs' = <<t1, t2, op>>
    /\ oldOut' = OldCalc_operations(JsFin(t1), JsFin(t2), op)
    /\ adapterOut' = NoCall
    /\ CalcFrame

\* print(adapter.operations(t1, t2, op)) with the arguments of the last
\* OldCalc call
CalcAdapter_call ==
  /\ oldOut # NoCall
  /\ adapterOut = NoCall
  /\ adapterOut' =
       CalcAdapter_operations(JsFin(calcArgs[1]), JsFin(calcArgs[2]), calcArgs[3])
  /\ UNCHANGED <<calcArgs, oldOut>>
  /\ CalcFrame

NextCalc == OldCalc_call \/ CalcAdapter_call

\* C1: CalcAdapter.operations(t1, t2, op) returns what OldCalc.operations
\* returns for the same integers and the same op: t1 + t2 for 'add',
\* t1 - t2 for 'sub' (15 for 25, 10, 'sub'), NaN for any other op.
C1_AdapterEqualsOldCalc ==
  adapterOut # NoCall =>
    /\ adapterOut = oldOut
    /\ calcArgs[3] = "add" => adapterOut = <<"fin", calcArgs[1] + calcArgs[2]>>
    /\ calcArgs[3] = "sub" => adapterOut = <<"fin", calcArgs[1] - calcArgs[2]>>
    /\ calcArgs[3] \notin {"add", "sub"} => adapterOut = <<"nan", 0>>
    /\ calcArgs = <<25, 10, "sub">> => adapterOut = <<"fin", 15>>

C1_Witness ==
  /\ calcArgs = <<25, 10, "sub">>
  /\ oldOut = <<"fin", 15>>
  /\ adapterOut = <<"fin", 15>>

(***************************************************************************)
(* Singleton 1: Database with lazy initialisation.                         *)
(***************************************************************************)
MaxDbSteps == 8

DbSqls == {"SELECT * FROM users", "SELECT 1"}

DbFrame == UNCHANGED <<calcVars, cfgVars, csVars, obsVars, txVars, cofVars,
    mcVars, apVars, apiVars, bvVars, fpVars, cartVars, fvVars, soVars, rbVars,
    guiVars, lgVars, tkVars, indVars, rcVars, stVars>>

DbInit ==
  /\ dbInstance = Undefined
  /\ dbNextId = 1
  /\ dbCtorRuns = 0
  /\ dbReturned = <<>>
  /\ dbConsole = <<>>

\* The result of Database.getInstance() in a state: the static field, the
\* id allocator, the number of constructor runs and the console after the
\* call, and the returned reference.
Database_getInstanceAlways(instance, nextId, ctorRuns, console) ==
  [instance |-> nextId, nextId |-> nextId + 1, ctorRuns |-> ctorRuns + 1,
   console |-> Append(console, "connect"), ret |-> nextId]
Database_getInstance(instance, nextId, ctorRuns, console) ==
  IF Falsy(instance)
  THEN [instance |-> nextId, nextId |-> nextId + 1, ctorRuns |-> ctorRuns + 1,
        console |-> Append(console, "connect"), ret |-> nextId]
  ELSE [instance |-> instance, nextId |-> nextId, ctorRuns |-> ctorRuns,
        console |-> console, ret |-> instance]

Database_getInstance_call ==
  /\ Len(dbReturned) + Len(dbConsole) < MaxDbSteps
  /\ LET r == Database_getInstance(dbInstance, dbNextId, dbCtorRuns, dbConsole)
     IN /\ dbInstance' = r.instance
        /\ dbNextId' = r.nextId
        /\ dbCtorRuns' = r.ctorRuns
        /\ dbConsole' = r.console
        /\ dbReturned' = Append(dbReturned, r.ret)
  /\ DbFrame

\* db.query(sql) through a reference some getInstance() call returned
Database_query ==
  /\ Len(dbReturned) + Len(dbConsole) < MaxDbSteps
  /\ \E i \in DOMAIN dbReturned, sql \in DbSqls :
       dbConsole' = Append(dbConsole, sql)
  /\ UNCHANGED <<dbInstance, dbNextId, dbCtorRuns, dbReturned>>
  /\ DbFrame

NextDatabase == Database_getInstance_call \/ Database_query

\* C4: after any sequence of Database.getInstance() calls every call has
\* returned the same object, and the constructor has run exactly once, on
\* the first call (never before it).
C4_OneDatabaseInstance ==
  /\ \A i, j \in DOMAIN dbReturned : dbReturned[i] = dbReturned[j]
  /\ dbCtorRuns = (IF dbReturned = <<>> THEN 0 ELSE 1)
  /\ Cardinality({i \in DOMAIN dbConsole : dbConsole[i] = "connect"}) = dbCtorRuns

C4_Witness ==
  /\ Len(dbReturned) >= 3
  /\ dbCtorRuns = 1
  /\ \E i \in DOMAIN dbConsole : dbConsole[i] # "connect"

(***************************************************************************)
(* Singleton 3: Config behind SingletonProxy.                              *)
(***************************************************************************)
MaxCfgCalls == 4

CfgKeys == {"theme", "lang"}
CfgVals == {"dark", "ru"}

\* An object without a settings field, and one whose settings is {}.
NoSettings    == [has |-> FALSE, map |-> {}]
EmptySettings == [has |-> TRUE, map |-> {}]

CfgFrame == UNCHANGED <<calcVars, dbVars, csVars, obsVars, txVars, cofVars,
    mcVars, apVars, apiVars, bvVars, fpVars, cartVars, fvVars, soVars, rbVars,
    guiVars, lgVars, tkVars, indVars, rcVars, stVars>>

CfgInit ==
  /\ cfgInstance = Undefined
  /\ cfgNextId = 1
  /\ cfgSettings = <<>>
  /\ cfgInits = <<>>
  /\ cfgReturned = <<>>
  /\ cfgWrites = {}

\* new Config(): `this` is a fresh object (id nextId); the constructor
\* returns Config.instance when there is one, and otherwise gives `this`
\* an empty settings object and makes it the instance.  The state is the
\* record [instance, nextId, settings, inits].
Config_newUnguarded(st) ==
  [instance |-> st.nextId,
   nextId   |-> st.nextId + 1,
   settings |-> Append(st.settings, EmptySettings),
   inits    |-> Append(st.inits, st.nextId),
   ret      |-> st.nextId]
Config_new(st) ==
  IF ~Falsy(st.instance)
  THEN [instance |-> st.instance,
        nextId   |-> st.nextId + 1,
        settings |-> Append(st.settings, NoSettings),
        inits    |-> st.inits,
        ret      |-> st.instance]
  ELSE [instance |-> st.nextId,
        nextId   |-> st.nextId + 1,
        settings |-> Append(st.settings, EmptySettings),
        inits    |-> Append(st.inits, st.nextId),
        ret      |-> st.nextId]

\* The construct trap of SingletonProxy, with target = Config.
SingletonProxy_construct(st) ==
  IF Falsy(st.instance)
  THEN LET c == Config_new(st)
       IN [c EXCEPT !.instance = c.ret, !.ret = c.ret]
  ELSE [st EXCEPT !.ret = st.instance]

CfgState ==
  [instance |-> cfgInstance, nextId |-> cfgNextId, settings |-> cfgSettings,
   inits |-> cfgInits, ret |-> Undefined]

CfgInstall(r, via) ==
  /\ cfgInstance' = r.instance
  /\ cfgNextId' = r.nextId
  /\ cfgSettings' = r.settings
  /\ cfgInits' = r.inits
  /\ cfgReturned' = Append(cfgReturned, <<via, r.ret, r.settings[r.ret].map>>)
  /\ UNCHANGED cfgWrites

\* const c = new SingletonProxy()
SingletonProxy_new_call ==
  /\ Len(cfgReturned) < MaxCfgCalls
  /\ CfgInstall(SingletonProxy_construct(CfgState), "proxy")
  /\ CfgFrame

\* const c = new Config(), by-passing the proxy
Config_new_call ==
  /\ Len(cfgReturned) < MaxCfgCalls
  /\ CfgInstall(Config_new(CfgState), "direct")
  /\ CfgFrame

\* c.settings[k] = v through a reference some construction returned
Config_settings_write ==
  /\ \E i \in DOMAIN cfgReturned, k \in CfgKeys, v \in CfgVals :
       LET ref == cfgReturned[i][2]
           old == cfgSettings[ref].map
           new == {p \in old : p[1] # k} \cup {<<k, v>>}
       IN /\ cfgSettings[ref].has
          /\ cfgSettings' = [cfgSettings EXCEPT ![ref].map = new]
          /\ cfgWrites' = {p \in cfgWrites : p[1] # k} \cup {<<k, v>>}
  /\ UNCHANGED <<cfgInstance, cfgNextId, cfgInits, cfgReturned>>
  /\ CfgFrame

NextConfig == SingletonProxy_new_call \/ Config_new_call \/ Config_settings_write

CfgProxyCalls == {i \in DOMAIN cfgReturned : cfgReturned[i][1] = "proxy"}

\* C5: every `new SingletonProxy()` returns the same Config object, and the
\* settings field of that object is initialised exactly once: no later
\* construction replaces it or resets what was written to it.
C5_OneConfigSettingsKept ==
  /\ \A i, j \in CfgProxyCalls : cfgReturned[i][2] = cfgReturned[j][2]
  /\ \A i \in CfgProxyCalls :
       /\ cfgInits = <<cfgReturned[i][2]>>
       /\ cfgSettings[cfgReturned[i][2]].has
       /\ cfgSettings[cfgReturned[i][2]].map = cfgWrites

\* Two proxy constructions and one direct one, the last proxy construction
\* made after a setting was written.
C5_Witness ==
  /\ Cardinality(CfgProxyCalls) >= 2
  /\ \E i \in DOMAIN cfgReturned : cfgReturned[i][1] = "direct"
  /\ cfgReturned[Len(cfgReturned)][1] = "proxy"
  /\ cfgReturned[Len(cfgReturned)][3] # {}

(***************************************************************************)
(* Singleton 4: CacheService.                                              *)
(***************************************************************************)
MaxCsRefs == 3

CsKeys == {"user", "token"}
CsVals == {"Alice", "Bob"}
CsUndefined == "undefined"

\* new Map()
EmptyMap == [k \in CsKeys |-> CsUndefined]

CsFrame == UNCHANGED <<calcVars, dbVars, cfgVars, obsVars, txVars, cofVars,
    mcVars, apVars, apiVars, bvVars, fpVars, cartVars, fvVars, soVars, rbVars,
    guiVars, lgVars, tkVars, indVars, rcVars, stVars>>

CsInit ==
  /\ csInstance = Undefined
  /\ csNextId = 1
  /\ csCache = <<>>
  /\ csRefs = <<>>
  /\ csLastSet = [k \in CsKeys |-> [val |-> CsUndefined, via |-> 0]]
  /\ csGot = <<>>

\* CacheService.getInstance() on the state [instance, nextId, cache]: cache
\* holds the Map of every CacheService object, by object id.
CacheService_getInstanceAlways(st) ==
  [instance |-> st.nextId, nextId |-> st.nextId + 1,
   cache |-> Append(st.cache, EmptyMap), ret |-> st.nextId]
CacheService_getInstance(st) ==
  IF Falsy(st.instance)
  THEN [instance |-> st.nextId, nextId |-> st.nextId + 1,
        cache |-> Append(st.cache, EmptyMap), ret |-> st.nextId]
  ELSE [st EXCEPT !.ret = st.instance]

\* ref.set(key, value): the Maps after the call
CacheService_set(cache, ref, key, value) ==
  [cache EXCEPT ![ref][key] = value]

\* ref.get(key)
CacheService_get(cache, ref, key) == cache[ref][key]

CacheService_getInstance_call ==
  /\ Len(csRefs) < MaxCsRefs
  /\ LET r == CacheService_getInstance(
                [instance |-> csInstance, nextId |-> csNextId,
                 cache |-> csCache, ret |-> Undefined])
     IN /\ csInstance' = r.instance
        /\ csNextId' = r.nextId
        /\ csCache' = r.cache
        /\ csRefs' = Append(csRefs, r.ret)
  /\ UNCHANGED <<csLastSet, csGot>>
  /\ CsFrame

\* csRefs[i].set(k, v)
CacheService_set_call ==
  /\ \E i \in DOMAIN csRefs, k \in CsKeys, v \in CsVals :
       /\ csCache' = CacheService_set(csCache, csRefs[i], k, v)
       /\ csLastSet' = [csLastSet EXCEPT ![k] = [val |-> v, via |-> i]]
  /\ csGot' = <<>>
  /\ UNCHANGED <<csInstance, csNextId, csRefs>>
  /\ CsFrame

\* console.log(csRefs[i].get(k))
CacheService_get_call ==
  /\ \E i \in DOMAIN csRefs, k \in CsKeys :
       csGot' = <<i, k, CacheService_get(csCache, csRefs[i], k)>>
  /\ UNCHANGED <<csInstance, csNextId, csCache, csRefs, csLastSet>>
  /\ CsFrame

NextCache ==
  CacheService_getInstance_call \/ CacheService_set_call \/ CacheService_get_call

\* C6: a value stored with set(key, value) through any reference obtained
\* from CacheService.getInstance() is what get(key) returns through every
\* reference obtained from getInstance(), until the key is set again.
C6_SetVisibleThroughEveryReference ==
  /\ \A i \in DOMAIN csRefs, k \in CsKeys :
       CacheService_get(csCache, csRefs[i], k) = csLastSet[k].val
  /\ csGot # <<>> => csGot[3] = csLastSet[csGot[2]].val

\* A get that returned a stored value through another reference than the
\* one it was stored through.
C6_Witness ==
  /\ csGot # <<>>
  /\ csGot[3] # CsUndefined
  /\ csLastSet[csGot[2]].via # csGot[1]

(***************************************************************************)
(* Observer: NewsPublisher, ReactiveState and Subject.  The model holds   *)
(* one subject object; the constructor that creates it fixes its class.    *)
(* A state change runs forEach over the subscriber array, one callback per *)
(* step; a callback may itself subscribe or unsubscribe an observer.       *)
(***************************************************************************)
MaxSubs == 3
MaxRounds == 2

Observers == {"Vasya", "Petya"}
NewsTexts == {"JavaScript", "Patterns"}
StateValues == {10, 20}
FireActions == {[type |-> "PLUS", value |-> 0], [type |-> "MULTI_PLUS", value |-> 10]}
Null == "null"

ObsFrame == UNCHANGED <<calcVars, dbVars, cfgVars, csVars, txVars, cofVars,
    mcVars, apVars, apiVars, bvVars, fpVars, cartVars, fvVars, soVars, rbVars,
    guiVars, lgVars, tkVars, indVars, rcVars, stVars>>

ObsInit ==
  /\ obsClass = "none"
  /\ obsSubs = <<>>
  /\ obsValue = Null
  /\ obsPc = "idle"
  /\ obsIter = <<>>
  /\ obsI = 1
  /\ obsArg = Null
  /\ obsDelivered = <<>>
  /\ obsRounds = 0
  /\ obsAtChange = <<>>
  /\ obsGone = {}
  /\ obsGoneAtChange = {}
  /\ obsPrevRound = <<>>
  /\ obsUnsubSince = {}
  /\ obsUnsubBetween = {}
  /\ obsPushed = <<>>

\* array.push(x)
Array_pushUnique(arr, x) ==
  IF \E i \in DOMAIN arr : arr[i] = x THEN arr ELSE Append(arr, x)
Array_push(arr, x) == Append(arr, x)

\* array.filter(e => e !== x): a new array, the receiver is left as it is
Array_filterDropFirst(arr, x) ==
  IF \E i \in DOMAIN arr : arr[i] = x
  THEN LET i == CHOOSE i \in DOMAIN arr :
                  arr[i] = x /\ \A j \in 1..(i - 1) : arr[j] # x
       IN SubSeq(arr, 1, i - 1) \o SubSeq(arr, i + 1, Len(arr))
  ELSE arr
Array_filterNot(arr, x) == SelectSeq(arr, LAMBDA e : e # x)

\* The elements array.forEach visits: forEach reads the length once, before
\* the first callback, and the examples change the array only by push (past
\* that length) or by assigning a new array to the field, so the elements
\* visited are those of the array when forEach was called (snapshot), not
\* those of the field when a callback returns (live).
ForEach_elementsLive(snapshot, live) == live
ForEach_elements(snapshot, live) == snapshot

\* new NewsPublisher() / new ReactiveState(value) / new Subject()
\* How many registrations (or deliveries) of o a list holds.
ObsCount(seq, o) == Cardinality({i \in DOMAIN seq : seq[i] = o})

ObsConstruct(cls, value) ==
  /\ obsClass = "none"
  /\ obsClass' = cls
  /\ obsSubs' = <<>>
  /\ obsValue' = value
  /\ UNCHANGED <<obsPc, obsIter, obsI, obsArg, obsDelivered, obsRounds,
                 obsAtChange, obsGone, obsGoneAtChange, obsPrevRound,
                 obsUnsubSince, obsUnsubBetween, obsPushed>>
  /\ ObsFrame

NewsPublisher_new == ObsConstruct("NewsPublisher", Null)
ReactiveState_new == \E v \in StateValues : ObsConstruct("ReactiveState", v)
Subject_new == ObsConstruct("Subject", Null)

\* subject.subscribe(o), called by the client between state changes
ObsSubscribe(cls, o) ==
  /\ obsClass = cls
  /\ obsPc = "idle"
  /\ Len(obsSubs) < MaxSubs
  /\ obsSubs' = Array_push(obsSubs, o)
  /\ obsGone' = obsGone \ {o}
  /\ obsPushed' = <<o, ObsCount(obsSubs, o)>>
  /\ UNCHANGED <<obsClass, obsValue, obsPc, obsIter, obsI, obsArg, obsDelivered,
                 obsRounds, obsAtChange, obsGoneAtChange, obsPrevRound,
                 obsUnsubSince, obsUnsubBetween>>
  /\ ObsFrame

NewsPublisher_subscribe == \E o \in Observers : ObsSubscribe("NewsPublisher", o)
ReactiveState_subscribe == \E o \in Observers : ObsSubscribe("ReactiveState", o)
Subject_subscribe == \E o \in Observers : ObsSubscribe("Subject", o)

\* subject.unsubscribe(o), called by the client between state changes
ObsUnsubscribe(cls, o) ==
  /\ obsClass = cls
  /\ obsPc = "idle"
  /\ obsSubs' = Array_filterNot(obsSubs, o)
  /\ obsGone' = obsGone \cup {o}
  /\ obsUnsubSince' = obsUnsubSince \cup {o}
  /\ obsPushed' = <<>>
  /\ UNCHANGED <<obsClass, obsValue, obsPc, obsIter, obsI, obsArg, obsDelivered,
                 obsRounds, obsAtChange, obsGoneAtChange, obsPrevRound,
                 obsUnsubBetween>>
  /\ ObsFrame

NewsPublisher_unsubscribe == \E o \in Observers : ObsUnsubscribe("NewsPublisher", o)
Subject_unsubscribe == \E o \in Observers : ObsUnsubscribe("Subject", o)

\* The state change: the field is assigned (NewsPublisher, ReactiveState) and
\* forEach starts on the subscriber array.
ObsChange(cls, value, arg) ==
  /\ obsClass = cls
  /\ obsPc = "idle"
  /\ obsRounds < MaxRounds
  /\ obsValue' = value
  /\ obsArg' = arg
  /\ obsPc' = "notify"
  /\ obsIter' = obsSubs
  /\ obsI' = 1
  /\ obsDelivered' = <<>>
  /\ obsRounds' = obsRounds + 1
  /\ obsAtChange' = obsSubs
  /\ obsGoneAtChange' = obsGone
  /\ obsPrevRound' = [i \in DOMAIN obsDelivered |-> obsDelivered[i][1]]
  /\ obsUnsubBetween' = obsUnsubSince
  /\ obsUnsubSince' = {}
  /\ UNCHANGED <<obsClass, obsSubs, obsGone, obsPushed>>
  /\ ObsFrame

\* publisher.setNews(text): this.news = text; this.notify()
NewsPublisher_setNews == \E t \in NewsTexts : ObsChange("NewsPublisher", t, t)
\* state.value = newValue: this._value = newValue; this._notify()
ReactiveState_set_value == \E v \in StateValues : ObsChange("ReactiveState", v, v)
\* stream.fire(action)
Subject_fire == \E a \in FireActions : ObsChange("Subject", obsValue, a)

\* What the callback of one forEach step receives: this.news, this._value
\* (read when the callback is called) or the action fire was called with.
\* obsArg is the argument of the state-changing call in progress.
ObsPayload(cls) == IF cls = "Subject" THEN obsArg ELSE obsValue

\* One forEach step: the callback of the next element is called with the
\* payload and returns.  The callback is client code: besides receiving
\* the update it may subscribe or unsubscribe an observer.
ObsCallback(cls) ==
  /\ obsClass = cls
  /\ obsPc = "notify"
  /\ obsI <= Len(ForEach_elements(obsIter, obsSubs))
  /\ obsDelivered' =
       Append(obsDelivered, <<ForEach_elements(obsIter, obsSubs)[obsI], ObsPayload(cls)>>)
  /\ obsI' = obsI + 1
  /\ \/ UNCHANGED <<obsSubs, obsGone, obsUnsubSince, obsPushed>>
     \/ \E o \in Observers :
          /\ Len(obsSubs) < MaxSubs
          /\ obsSubs' = Array_push(obsSubs, o)
          /\ obsGone' = obsGone \ {o}
          /\ obsPushed' = <<o, ObsCount(obsSubs, o)>>
          /\ UNCHANGED obsUnsubSince
     \/ \E o \in Observers :
          /\ cls # "ReactiveState"
          /\ obsSubs' = Array_filterNot(obsSubs, o)
          /\ obsGone' = obsGone \cup {o}
          /\ obsUnsubSince' = obsUnsubSince \cup {o}
          /\ obsPushed' = <<>>
  /\ UNCHANGED <<obsClass, obsValue, obsPc, obsIter, obsArg, obsRounds,
                 obsAtChange, obsGoneAtChange, obsPrevRound, obsUnsubBetween>>
  /\ ObsFrame

NewsPublisher_notify_step == ObsCallback("NewsPublisher")
ReactiveState_notify_step == ObsCallback("ReactiveState")
Subject_fire_step == ObsCallback("Subject")

\* forEach has visited every element: notify and the state-changing call
\* return.
ObsReturn ==
  /\ obsPc = "notify"
  /\ obsI > Len(ForEach_elements(obsIter, obsSubs))
  /\ obsPc' = "idle"
  /\ UNCHANGED <<obsClass, obsSubs, obsValue, obsIter, obsI, obsArg,
                 obsDelivered, obsRounds, obsAtChange, obsGone, obsGoneAtChange,
                 obsPrevRound, obsUnsubSince, obsUnsubBetween, obsPushed>>
  /\ ObsFrame

NextObserver ==
  \/ NewsPublisher_new \/ ReactiveState_new \/ Subject_new
  \/ NewsPublisher_subscribe \/ ReactiveState_subscribe \/ Subject_subscribe
  \/ NewsPublisher_unsubscribe \/ Subject_unsubscribe
  \/ NewsPublisher_setNews \/ ReactiveState_set_value \/ Subject_fire
  \/ NewsPublisher_notify_step \/ ReactiveState_notify_step \/ Subject_fire_step
  \/ ObsReturn

\* The observers of a delivery log, in delivery order.
ObsOf(log) == [i \in DOMAIN log |-> log[i][1]]

\* seq without the elements outside keep.
ObsRestrict(seq, keep) == SelectSeq(seq, LAMBDA e : e \in keep)

ObsIsPrefix(a, b) == Len(a) <= Len(b) /\ SubSeq(b, 1, Len(a)) = a

\* What a complete round delivers: the argument of the state-changing
\* call, once to every subscriber registered when the call was made, in
\* registration order.
ObsRoundExpected == [i \in DOMAIN obsAtChange |-> <<obsAtChange[i], obsArg>>]

\* C2: when a subject's state changes (NewsPublisher.setNews, the
\* ReactiveState value setter, Subject.fire), every subscriber registered
\* at that moment is notified with the new value in registration order,
\* and all these notifications are done when the state-changing call has
\* returned (while it runs, the notifications made so far are the first
\* ones of that list).
C2_NotifiedInOrderBeforeReturn ==
  /\ (obsPc = "idle" /\ obsRounds > 0) => obsDelivered = ObsRoundExpected
  /\ obsPc = "notify" => ObsIsPrefix(obsDelivered, ObsRoundExpected)

\* A state change has returned after notifying two different subscribers,
\* one of whose callbacks changed the subscriber list meanwhile.
C2_Witness ==
  /\ obsPc = "idle"
  /\ Len(obsDelivered) >= 2
  /\ obsDelivered[1][1] # obsDelivered[2][1]
  /\ obsSubs # obsAtChange

C27_RoundNotifiesListAtStart ==
  obsClass \in {"NewsPublisher", "Subject"} =>
    /\ Len(obsDelivered) <= Len(obsAtChange)
    /\ \A i \in DOMAIN obsDelivered : obsDelivered[i][1] = obsAtChange[i]
    /\ (obsPc = "notify" /\ obsI > Len(obsAtChange)) =>
         Len(obsDelivered) = Len(obsAtChange)
    /\ (obsPc = "notify" /\ obsI = 1) => obsAtChange = obsSubs

\* The round over <<Vasya, Petya>> has notified both: Vasya's callback
\* unsubscribed Petya, Petya was notified all the same, and its callback
\* subscribed Vasya a second time (the last operation on the list), which
\* brought no third notification.
C27_Witness ==
  /\ obsClass = "Subject"
  /\ obsPc = "notify"
  /\ obsI > Len(obsAtChange)
  /\ obsAtChange = <<"Vasya", "Petya">>
  /\ ObsOf(obsDelivered) = <<"Vasya", "Petya">>
  /\ obsSubs = <<"Vasya", "Vasya">>
  /\ obsPushed = <<"Vasya", 1>>

\* C28: subscribe does not deduplicate: an observer subscribed k times to
\* a NewsPublisher or a Subject is notified k times per state change, and
\* one unsubscribe(o) removes all k registrations, so that o is then
\* notified zero times.
C28_NotifiedOncePerRegistration ==
  obsClass \in {"NewsPublisher", "Subject"} =>
    /\ obsPushed # <<>> =>
         ObsCount(obsSubs, obsPushed[1]) = obsPushed[2] + 1
    /\ \A o \in obsGone : ObsCount(obsSubs, o) = 0
    /\ \A o \in Observers :
         /\ (obsPc = "idle" /\ obsRounds > 0) =>
              ObsCount(ObsOf(obsDelivered), o) = ObsCount(obsAtChange, o)
         /\ o \in obsGoneAtChange => ObsCount(ObsOf(obsDelivered), o) = 0

\* Vasya, subscribed twice, was notified twice by one fire, was then
\* unsubscribed by one call, and the next fire notified Petya only.
C28_Witness ==
  /\ obsClass = "Subject"
  /\ obsPc = "idle"
  /\ obsPrevRound = <<"Vasya", "Vasya", "Petya">>
  /\ obsGoneAtChange = {"Vasya"}
  /\ ObsOf(obsDelivered) = <<"Petya">>

(***************************************************************************)
(* Decorator 1: Text, TextDecorator, Bold/Italic/UnderlineDecorator.       *)
(* A string is the sequence of its pieces; a template literal              *)
(* concatenates.  txHeap holds the objects by id: a Text has a content, a  *)
(* decorator has the id of the object it wraps in its text field.          *)
(***************************************************************************)
MaxTextObjs == 4

TextContents == {<<"Hello World">>, <<"Decorator Pattern">>}
TextDecoratorClasses == {"BoldDecorator", "ItalicDecorator", "UnderlineDecorator"}

TxFrame == UNCHANGED <<calcVars, dbVars, cfgVars, csVars, obsVars, cofVars,
    mcVars, apVars, apiVars, bvVars, fpVars, cartVars, fvVars, soVars, rbVars,
    guiVars, lgVars, tkVars, indVars, rcVars, stVars>>

TxInit ==
  /\ txHeap = <<>>
  /\ txOut = <<>>

\* `<b>${inner}</b>`
BoldDecorator_wrapMisnested(inner) == <<"<b>">> \o <<"</b>">> \o inner
BoldDecorator_wrap(inner) == <<"<b>">> \o inner \o <<"</b>">>
\* `<i>${inner}</i>`
ItalicDecorator_wrap(inner) == <<"<i>">> \o inner \o <<"</i>">>
\* `<u>${inner}</u>`
UnderlineDecorator_wrap(inner) == <<"<u>">> \o inner \o <<"</u>">>

\* obj.getContent() for the object with id `id`: Text returns its content,
\* a concrete decorator wraps super.getContent(), which is
\* TextDecorator.getContent(): this.text.getContent().
RECURSIVE Text_getContent(_, _)
TextDecorator_getContent(heap, id) == Text_getContent(heap, heap[id].text)
Text_getContent(heap, id) ==
  CASE heap[id].cls = "Text" -> heap[id].content
    [] heap[id].cls = "BoldDecorator" ->
         BoldDecorator_wrap(TextDecorator_getContent(heap, id))
    [] heap[id].cls = "ItalicDecorator" ->
         ItalicDecorator_wrap(TextDecorator_getContent(heap, id))
    [] heap[id].cls = "UnderlineDecorator" ->
         UnderlineDecorator_wrap(TextDecorator_getContent(heap, id))

\* new Text(content)
Text_new ==
  /\ Len(txHeap) < MaxTextObjs
  /\ \E c \in TextContents :
       txHeap' = Append(txHeap, [cls |-> "Text", content |-> c, text |-> 0])
  /\ txOut' = <<>>
  /\ TxFrame

\* new BoldDecorator(t), new ItalicDecorator(t), new UnderlineDecorator(t)
\* around an existing object t
TextDecorator_new ==
  /\ Len(txHeap) < MaxTextObjs
  /\ \E cls \in TextDecoratorClasses, t \in DOMAIN txHeap :
       txHeap' = Append(txHeap, [cls |-> cls, content |-> <<>>, text |-> t])
  /\ txOut' = <<>>
  /\ TxFrame

\* console.log(obj.getContent())
Text_getContent_call ==
  /\ \E id \in DOMAIN txHeap : txOut' = <<id, Text_getContent(txHeap, id)>>
  /\ UNCHANGED txHeap
  /\ TxFrame

NextText == Text_new \/ TextDecorator_new \/ Text_getContent_call

\* The objects from id down to the Text it decorates, outermost first.
RECURSIVE TxChain(_, _)
TxChain(heap, id) ==
  IF heap[id].cls = "Text" THEN <<id>>
  ELSE <<id>> \o TxChain(heap, heap[id].text)

TxTag(cls) ==
  CASE cls = "BoldDecorator" -> "b"
    [] cls = "ItalicDecorator" -> "i"
    [] cls = "UnderlineDecorator" -> "u"

TxOpen(tag) ==
  CASE tag = "b" -> "<b>" [] tag = "i" -> "<i>" [] tag = "u" -> "<u>"
TxClose(tag) ==
  CASE tag = "b" -> "</b>" [] tag = "i" -> "</i>" [] tag = "u" -> "</u>"

\* content is c inside the tags of the decorators of chain, the k-th
\* decorator from the outside giving the k-th tag from the outside.
TxNested(heap, chain, content) ==
  LET n == Len(chain) - 1
      c == heap[chain[Len(chain)]].content
  IN /\ Len(content) = 2 * n + Len(c)
     /\ SubSeq(content, n + 1, n + Len(c)) = c
     /\ \A k \in 1..n :
          /\ content[k] = TxOpen(TxTag(heap[chain[k]].cls))
          /\ content[Len(content) + 1 - k] = TxClose(TxTag(heap[chain[k]].cls))

\* C7: getContent() of a chain of Bold/Italic/Underline decorators around
\* Text(c) returns c wrapped in the tags <b>, <i>, <u> nested in wrapping
\* order, the outermost decorator giving the outermost tag
\* (BoldDecorator(Text('Hello World')) gives '<b>Hello World</b>'), and the
\* wrapped Text's own getContent() still returns c.
C7_TagsNestedInWrappingOrder ==
  /\ \A id \in DOMAIN txHeap :
       /\ TxNested(txHeap, TxChain(txHeap, id), Text_getContent(txHeap, id))
       /\ (/\ txHeap[id].cls = "BoldDecorator"
           /\ txHeap[txHeap[id].text] =
                [cls |-> "Text", content |-> <<"Hello World">>, text |-> 0])
          => Text_getContent(txHeap, id) = <<"<b>", "Hello World", "</b>">>
  /\ txOut # <<>> =>
       /\ TxNested(txHeap, TxChain(txHeap, txOut[1]), txOut[2])
       /\ LET chain == TxChain(txHeap, txOut[1])
              text == chain[Len(chain)]
          IN Text_getContent(txHeap, text) = txHeap[text].content

\* getContent() was called on an underline around an italic around a bold
\* decorator around a Text.
C7_Witness ==
  /\ txOut # <<>>
  /\ txOut[2] = <<"<u>", "<i>", "<b>", "Decorator Pattern", "</b>", "</i>", "</u>">>

(***************************************************************************)
(* Decorator 2: Coffee, CoffeeDecorator, Milk/Sugar/WhipDecorator.         *)
(***************************************************************************)
MaxCoffeeObjs == 4

CoffeeDecoratorClasses == {"MilkDecorator", "SugarDecorator", "WhipDecorator"}

CofFrame == UNCHANGED <<calcVars, dbVars, cfgVars, csVars, obsVars, txVars,
    mcVars, apVars, apiVars, bvVars, fpVars, cartVars, fvVars, soVars, rbVars,
    guiVars, lgVars, tkVars, indVars, rcVars, stVars>>

CofInit ==
  /\ cofHeap = <<>>
  /\ cofOut = <<>>

\* obj.cost(): Coffee costs 5, a concrete decorator adds its price to
\* super.cost(), which is CoffeeDecorator.cost(): this.coffee.cost().
RECURSIVE Coffee_cost(_, _)
CoffeeDecorator_cost(heap, id) == Coffee_cost(heap, heap[id].coffee)
MilkDecorator_costReplaces(heap, id) == 2
MilkDecorator_cost(heap, id) == CoffeeDecorator_cost(heap, id) + 2
SugarDecorator_cost(heap, id) == CoffeeDecorator_cost(heap, id) + 1
WhipDecorator_cost(heap, id) == CoffeeDecorator_cost(heap, id) + 3
Coffee_cost(heap, id) ==
  CASE heap[id].cls = "Coffee" -> 5
    [] heap[id].cls = "MilkDecorator" -> MilkDecorator_cost(heap, id)
    [] heap[id].cls = "SugarDecorator" -> SugarDecorator_cost(heap, id)
    [] heap[id].cls = "WhipDecorator" -> WhipDecorator_cost(heap, id)

\* obj.description(), a string as the sequence of its pieces.
RECURSIVE Coffee_description(_, _)
CoffeeDecorator_description(heap, id) == Coffee_description(heap, heap[id].coffee)
Coffee_description(heap, id) ==
  CASE heap[id].cls = "Coffee" -> <<"Simple coffee">>
    [] heap[id].cls = "MilkDecorator" ->
         CoffeeDecorator_description(heap, id) \o <<", milk">>
    [] heap[id].cls = "SugarDecorator" ->
         CoffeeDecorator_description(heap, id) \o <<", sugar">>
    [] heap[id].cls = "WhipDecorator" ->
         CoffeeDecorator_description(heap, id) \o <<", whip">>

\* new Coffee()
Coffee_new ==
  /\ Len(cofHeap) < MaxCoffeeObjs
  /\ cofHeap' = Append(cofHeap, [cls |-> "Coffee", coffee |-> 0])
  /\ cofOut' = <<>>
  /\ CofFrame

\* new MilkDecorator(c), new SugarDecorator(c), new WhipDecorator(c) around
\* an existing object c
CoffeeDecorator_new ==
  /\ Len(cofHeap) < MaxCoffeeObjs
  /\ \E cls \in CoffeeDecoratorClasses, c \in DOMAIN cofHeap :
       cofHeap' = Append(cofHeap, [cls |-> cls, coffee |-> c])
  /\ cofOut' = <<>>
  /\ CofFrame

\* console.log(`${obj.description()}: $${obj.cost()}`)
Coffee_print_call ==
  /\ \E id \in DOMAIN cofHeap :
       cofOut' = <<id, Coffee_description(cofHeap, id), Coffee_cost(cofHeap, id)>>
  /\ UNCHANGED cofHeap
  /\ CofFrame

NextCoffee == Coffee_new \/ CoffeeDecorator_new \/ Coffee_print_call

\* The classes of the objects from id down to the Coffee, outermost first.
RECURSIVE CofChain(_, _)
CofChain(heap, id) ==
  IF heap[id].cls = "Coffee" THEN <<"Coffee">>
  ELSE <<heap[id].cls>> \o CofChain(heap, heap[id].coffee)

CofCount(chain, cls) == Cardinality({k \in DOMAIN chain : chain[k] = cls})

CofSuffix(cls) ==
  CASE cls = "MilkDecorator" -> ", milk"
    [] cls = "SugarDecorator" -> ", sugar"
    [] cls = "WhipDecorator" -> ", whip"

\* cost and description are those of an object with this chain.
CofAsClaimed(chain, description, cost) ==
  /\ cost = 5 + 2 * CofCount(chain, "MilkDecorator")
              + 1 * CofCount(chain, "SugarDecorator")
              + 3 * CofCount(chain, "WhipDecorator")
  /\ Len(description) = Len(chain)
  /\ description[1] = "Simple coffee"
  /\ \A k \in 1..(Len(chain) - 1) :
       description[1 + k] = CofSuffix(chain[Len(chain) - k])

\* C8: for any chain of Milk/Sugar/Whip decorators around Coffee, cost() is
\* 5 plus 2 per MilkDecorator, 1 per SugarDecorator and 3 per
\* WhipDecorator, independent of the wrapping order, and description() is
\* 'Simple coffee' followed by ', milk' / ', sugar' / ', whip' in wrapping
\* order, innermost first.
C8_CostAndDescription ==
  /\ \A id \in DOMAIN cofHeap :
       CofAsClaimed(CofChain(cofHeap, id), Coffee_description(cofHeap, id),
                    Coffee_cost(cofHeap, id))
  /\ \A a, b \in DOMAIN cofHeap :
       (\A cls \in CoffeeDecoratorClasses :
          CofCount(CofChain(cofHeap, a), cls) = CofCount(CofChain(cofHeap, b), cls))
       => Coffee_cost(cofHeap, a) = Coffee_cost(cofHeap, b)
  /\ cofOut # <<>> =>
       CofAsClaimed(CofChain(cofHeap, cofOut[1]), cofOut[2], cofOut[3])

\* The fancy coffee of the example was printed: whip around sugar around
\* milk around Coffee, $11.
C8_Witness ==
  /\ cofOut # <<>>
  /\ cofOut[2] = <<"Simple coffee", ", milk", ", sugar", ", whip">>
  /\ cofOut[3] = 11

(***************************************************************************)
(* Decorator 3: cacheDecorator(func), with func = heavyCalculation.        *)
(***************************************************************************)
MaxMemoNum == 3
MaxMemoCalls == 3

\* The numbers the decorated function is called with.
MemoNumbers == {JsFin(n) : n \in 2..MaxMemoNum} \cup {JsInf, JsNegInf, JsNaN}
MemoArgLists == {<<a, b>> : a \in MemoNumbers, b \in MemoNumbers}

McFrame == UNCHANGED <<calcVars, dbVars, cfgVars, csVars, obsVars, txVars,
    cofVars, apVars, apiVars, bvVars, fpVars, cartVars, fvVars, soVars,
    rbVars, guiVars, lgVars, tkVars, indVars, rcVars, stVars>>

McInit ==
  /\ mcCache = {}
  /\ mcCalls = <<>>
  /\ mcInvoked = <<>>

\* heavyCalculation(a, b): a + b after the busy loop
heavyCalculation(args) == JsAdd(args[1], args[2])

\* JSON.stringify of a number: its decimal digits when it is finite, and
\* null for NaN, Infinity and -Infinity.
JSON_stringifyNumber(v) == IF v[1] = "fin" THEN ToString(v[2]) ELSE "null"

\* JSON.stringify(args) of an array of numbers, a string as the sequence
\* of its pieces: [ item , item ... ]
RECURSIVE JSON_items(_)
JSON_items(args) ==
  IF args = <<>> THEN <<>>
  ELSE IF Len(args) = 1 THEN <<JSON_stringifyNumber(args[1])>>
  ELSE <<JSON_stringifyNumber(args[1]), ",">> \o JSON_items(Tail(args))
JSON_stringify(args) == <<"[">> \o JSON_items(args) \o <<"]">>

\* cache.has(key) and cache.get(key) on a Map held as its set of entries
Map_has(cache, key) == \E e \in cache : e[1] = key
Map_get(cache, key) == (CHOOSE e \in cache : e[1] = key)[2]
\* cache.set(key, value)
Map_set(cache, key, value) == {e \in cache : e[1] # key} \cup {<<key, value>>}

\* The function cacheDecorator(heavyCalculation) returns, called with
\* args: the cache and the list of func's invocations after the call, the
\* returned value, and whether func was invoked.
cachedCalculation(cache, invoked, args) ==
  LET key == JSON_stringify(args)
  IN IF Map_has(cache, key)
     THEN [cache |-> cache, invoked |-> invoked,
           ret |-> Map_get(cache, key), computed |-> FALSE]
     ELSE LET result == heavyCalculation(args)
          IN [cache |-> Map_set(cache, key, result),
              invoked |-> Append(invoked, args),
              ret |-> result, computed |-> TRUE]

\* console.log(cachedCalculation(a, b))
cachedCalculation_call ==
  /\ Len(mcCalls) < MaxMemoCalls
  /\ \E args \in MemoArgLists :
       LET r == cachedCalculation(mcCache, mcInvoked, args)
       IN /\ mcCache' = r.cache
          /\ mcInvoked' = r.invoked
          /\ mcCalls' = Append(mcCalls,
               [args |-> args, ret |-> r.ret, computed |-> r.computed])
  /\ McFrame

NextMemo == cachedCalculation_call

\* C9: for a function returned by cacheDecorator(func), over any sequence
\* of calls func is invoked at most once per distinct argument list: the
\* first call with a given argument list computes and stores func's
\* result, every later call with the same argument list returns that
\* stored result without invoking func.
C9_OncePerArgumentList ==
  /\ \A i, j \in DOMAIN mcInvoked : mcInvoked[i] = mcInvoked[j] => i = j
  /\ \A j \in DOMAIN mcCalls :
       LET earlier == {i \in 1..(j - 1) : mcCalls[i].args = mcCalls[j].args}
       IN IF earlier = {}
          THEN /\ mcCalls[j].computed
               /\ mcCalls[j].ret = heavyCalculation(mcCalls[j].args)
               /\ Map_has(mcCache, JSON_stringify(mcCalls[j].args))
          ELSE /\ ~mcCalls[j].computed
               /\ \A i \in earlier : mcCalls[j].ret = mcCalls[i].ret

(***************************************************************************)
(* Facade 1: AudioPlayerFacade over AudioDecoder, AudioProcessor and       *)
(* AudioOutput.  apCalls is the log of the calls the helpers received:     *)
(* <<method, argument, returned value>>.                                   *)
(***************************************************************************)
MaxSongs == 4

SongFiles == {"song.mp3", "intro.wav", "outro.ogg"}
NoValue == "undefined"

ApFrame == UNCHANGED <<calcVars, dbVars, cfgVars, csVars, obsVars, txVars,
    cofVars, mcVars, apiVars, bvVars, fpVars, cartVars, fvVars, soVars,
    rbVars, guiVars, lgVars, tkVars, indVars, rcVars, stVars>>

ApInit ==
  /\ apCalls = <<>>
  /\ apSongs = <<>>

AudioDecoder_decode(file) == "decoded_audio_stream"
AudioProcessor_process(stream) == "processed_audio"
AudioOutput_play(audio) == NoValue

\* player.playSong(filename): the helper calls it adds to the log
AudioPlayerFacade_playSongUnprocessed(calls, filename) ==
  LET stream == AudioDecoder_decode(filename)
      processedAudio == AudioProcessor_process(stream)
  IN calls \o <<<<"decode", filename, stream>>,
                <<"process", stream, processedAudio>>,
                <<"play", stream, AudioOutput_play(stream)>>>>
AudioPlayerFacade_playSong(calls, filename) ==
  LET stream == AudioDecoder_decode(filename)
      processedAudio == AudioProcessor_process(stream)
  IN calls \o <<<<"decode", filename, stream>>,
                <<"process", stream, processedAudio>>,
                <<"play", processedAudio, AudioOutput_play(processedAudio)>>>>

AudioPlayerFacade_playSong_call ==
  /\ Len(apSongs) < MaxSongs
  /\ \E f \in SongFiles :
       /\ apCalls' = AudioPlayerFacade_playSong(apCalls, f)
       /\ apSongs' = Append(apSongs, f)
  /\ ApFrame

NextAudio == AudioPlayerFacade_playSong_call

\* C10: each AudioPlayerFacade.playSong(filename) call invokes
\* decoder.decode(filename), then processor.process on the decoder's
\* result, then output.play on the processor's result, each exactly once
\* and in that order.
C10_DecodeProcessPlay ==
  /\ Len(apCalls) = 3 * Len(apSongs)
  /\ \A k \in DOMAIN apSongs :
       LET d == apCalls[3 * k - 2]
           p == apCalls[3 * k - 1]
           o == apCalls[3 * k]
       IN /\ d[1] = "decode" /\ d[2] = apSongs[k]
          /\ p[1] = "process" /\ p[2] = d[3]
          /\ o[1] = "play" /\ o[2] = p[3]

\* Two songs were played, song.mp3 last.
C10_Witness ==
  /\ Len(apSongs) = 2
  /\ apSongs[2] = "song.mp3"
  /\ apCalls[6] = <<"play", "processed_audio", "undefined">>

(***************************************************************************)
(* Specifications.                                                         *)
(***************************************************************************)
(***************************************************************************)
(* Facade 2: ApiService over CacheManager, Logger and HttpClient.          *)
(* CacheManager and HttpClient are used but defined nowhere: the cache is  *)
(* a key-value store whose get gives undefined for an absent key, and the  *)
(* response of httpClient.get is the server's, any string.                 *)
(***************************************************************************)
MaxFetches == 4

\* JavaScript strings and undefined as values; the condition of an if
\* statement is ToBoolean of the value: false for undefined and for "".
JsString(s) == <<"string", s>>
JsUndefined == <<"undefined", "">>
ToBoolean(v) == v[1] = "string" /\ v[2] # ""

ApiUrls == {"https://api.example.com/posts", "https://api.example.com/users"}
ApiResponses == {JsString("[{id: 1}]"), JsString("")}

\* this.cache.get(url)
CacheManager_get(cache, url) ==
  IF Map_has(cache, url) THEN Map_get(cache, url) ELSE JsUndefined

\* fetchData(url) where response is what the server answers if asked: the
\* cache and the list of HTTP requests after the call, the logger's line
\* and the returned value.
ApiService_fetchData(cache, http, url, response) ==
  LET cachedData == CacheManager_get(cache, url) IN
  IF ToBoolean(cachedData)
  THEN [cache |-> cache, http |-> http, logged |-> <<"from cache", url>>,
        ret |-> cachedData]
  ELSE [cache |-> Map_set(cache, url, response), http |-> Append(http, url),
        logged |-> <<"request", url>>, ret |-> response]

ApiFrame == UNCHANGED <<calcVars, dbVars, cfgVars, csVars, obsVars, txVars,
    cofVars, mcVars, apVars, bvVars, fpVars, cartVars, fvVars, soVars, rbVars,
    guiVars, lgVars, tkVars, indVars, rcVars, stVars>>

\* const api = new ApiService()
ApiInit ==
  /\ apiCache = {}
  /\ apiHttp = <<>>
  /\ apiCalls = <<>>

\* api.fetchData(url)
ApiService_fetchData_call ==
  \E url \in ApiUrls, response \in ApiResponses :
    LET r == ApiService_fetchData(apiCache, apiHttp, url, response) IN
    /\ Len(apiCalls) < MaxFetches
    /\ apiCache' = r.cache
    /\ apiHttp' = r.http
    /\ apiCalls' = Append(apiCalls,
         [url |-> url, ret |-> r.ret, logged |-> r.logged,
          held |-> Map_has(apiCache, url),
          heldData |-> CacheManager_get(apiCache, url),
          requests |-> Len(r.http) - Len(apiHttp),
          stored |-> CacheManager_get(r.cache, url)])
    /\ ApiFrame

NextApi == ApiService_fetchData_call

\* C11: fetchData(url) returns the cached data without an HTTP request
\* when data for url is in the cache, and otherwise makes one HTTP request
\* and stores its result; so the HTTP client is called at most once per
\* distinct url.
C11_AtMostOneRequestPerUrl ==
  /\ \A i \in DOMAIN apiCalls :
       LET c == apiCalls[i] IN
       IF c.held
       THEN c.requests = 0 /\ c.ret = c.heldData
       ELSE c.requests = 1 /\ c.stored = c.ret
  /\ \A u \in ApiUrls :
       Cardinality({i \in DOMAIN apiHttp : apiHttp[i] = u}) <= 1

(***************************************************************************)
(* Template method 1: Beverage.prepare() with Tea and Coffee.              *)
(***************************************************************************)
MaxPrepares == 3

\* Beverage, its two subclasses, and for the steps a subclass may leave
\* alone a subclass that overrides only brew and one that overrides only
\* addCondiments.
BeverageClasses == {"Beverage", "Tea", "Coffee", "OnlyBrew", "OnlyCondiments"}

Beverage_overrides(cls) ==
  CASE cls \in {"Tea", "Coffee"} -> {"brew", "addCondiments"}
    [] cls = "OnlyBrew" -> {"brew"}
    [] cls = "OnlyCondiments" -> {"addCondiments"}
    [] OTHER -> {}

\* The steps of prepare() in the order of its body.
Beverage_prepareStepsSwapped ==
  <<"boilWater", "addCondiments", "brew", "stir">>
Beverage_prepareSteps == <<"boilWater", "brew", "addCondiments", "stir">>

\* A step as Beverage defines it: boilWater and stir write a line, brew
\* and addCondiments throw ("Метод brew() должен быть реализован",
\* "Метод addCondiments() должен быть реализован").
Beverage_stepSilent(step) ==
  [line |-> <<"Beverage", step>>, error |-> "none"]
Beverage_step(step) ==
  CASE step = "brew" ->
         [line |-> <<>>, error |-> "brew() must be implemented"]
    [] step = "addCondiments" ->
         [line |-> <<>>, error |-> "addCondiments() must be implemented"]
    [] OTHER -> [line |-> <<"Beverage", step>>, error |-> "none"]

\* this.step() on an object of class cls: the subclass's method when it
\* has one (it writes its own line), Beverage's otherwise.
Beverage_dispatch(cls, step) ==
  IF step \in Beverage_overrides(cls)
  THEN [line |-> <<cls, step>>, error |-> "none"]
  ELSE Beverage_step(step)

\* The statements of prepare() from steps on: a throwing step ends the
\* call, the steps after it are not invoked.
RECURSIVE Beverage_run(_, _, _)
Beverage_run(cls, steps, done) ==
  IF steps = <<>> THEN done
  ELSE LET r == Beverage_dispatch(cls, Head(steps))
           invoked == Append(done.trace, Head(steps))
       IN  IF r.error # "none"
           THEN [trace |-> invoked, console |-> done.console,
                 error |-> r.error]
           ELSE Beverage_run(cls, Tail(steps),
                  [trace |-> invoked, console |-> Append(done.console, r.line),
                   error |-> "none"])

\* prepare(): the steps invoked, the console lines and the error thrown.
Beverage_prepare(cls) ==
  Beverage_run(cls, Beverage_prepareSteps,
    [trace |-> <<>>, console |-> <<>>, error |-> "none"])

BevFrame == UNCHANGED <<calcVars, dbVars, cfgVars, csVars, obsVars, txVars,
    cofVars, mcVars, apVars, apiVars, fpVars, cartVars, fvVars, soVars,
    rbVars, guiVars, lgVars, tkVars, indVars, rcVars, stVars>>

BevInit == bvCalls = <<>>

\* new cls().prepare()
Beverage_prepare_call ==
  \E cls \in BeverageClasses :
    LET r == Beverage_prepare(cls) IN
    /\ Len(bvCalls) < MaxPrepares
    /\ bvCalls' = Append(bvCalls,
         [cls |-> cls, trace |-> r.trace, console |-> r.console,
          error |-> r.error])
    /\ BevFrame

NextBev == Beverage_prepare_call

\* A sequence is a prefix of another.
IsPrefix(s, t) == Len(s) <= Len(t) /\ \A i \in DOMAIN s : s[i] = t[i]

\* C12: for every subclass that overrides brew and addCondiments,
\* prepare() executes boilWater, brew, addCondiments, stir exactly once
\* each, in that order; overriding steps never changes the order.
C12_StepsInFixedOrder ==
  \A i \in DOMAIN bvCalls :
    LET c == bvCalls[i] IN
    /\ IsPrefix(c.trace, <<"boilWater", "brew", "addCondiments", "stir">>)
    /\ {"brew", "addCondiments"} \subseteq Beverage_overrides(c.cls) =>
         /\ c.error = "none"
         /\ c.trace = <<"boilWater", "brew", "addCondiments", "stir">>
         /\ c.console = << <<"Beverage", "boilWater">>, <<c.cls, "brew">>,
                           <<c.cls, "addCondiments">>, <<"Beverage", "stir">> >>

C12_Witness ==
  /\ Len(bvCalls) = 2
  /\ bvCalls[1].cls = "Tea" /\ bvCalls[1].error = "none"
  /\ bvCalls[2].cls = "Coffee" /\ Len(bvCalls[2].console) = 4

\* C13: prepare() on a Beverage whose brew is not overridden ends with the
\* error of brew(): boilWater has run by then, addCondiments and stir are
\* not executed.
C13_BrewMissingStopsPrepare ==
  \A i \in DOMAIN bvCalls :
    LET c == bvCalls[i] IN
    "brew" \notin Beverage_overrides(c.cls) =>
      /\ c.error = "brew() must be implemented"
      /\ c.console = << <<"Beverage", "boilWater">> >>
      /\ c.trace = <<"boilWater", "brew">>

C13_Witness ==
  \E i \in DOMAIN bvCalls :
    /\ bvCalls[i].cls = "OnlyCondiments"
    /\ bvCalls[i].error = "brew() must be implemented"
    /\ \E j \in DOMAIN bvCalls : bvCalls[j].cls = "Beverage"

(***************************************************************************)
(* Template method 2: FileProcessor with CsvProcessor and JsonProcessor.   *)
(* A string is the sequence of its pieces; a JSON text is the sequence of  *)
(* its tokens.                                                             *)
(***************************************************************************)
MaxFileCalls == 3

FileClasses == {"FileProcessor", "CsvProcessor", "JsonProcessor"}
FileNames == {"data.csv", "data.json"}

\* "csv,data,example"
CsvText == <<"csv", ",", "data", ",", "example">>
\* '{"name":"John", "age":30}'
JsonText ==
  << <<"punct", "{">>, <<"str", "name">>, <<"punct", ":">>, <<"str", "John">>,
     <<"punct", ",">>, <<"ws", " ">>, <<"str", "age">>, <<"punct", ":">>,
     <<"num", 30>>, <<"punct", "}">> >>

\* s.split(sep): the pieces between the occurrences of sep.
RECURSIVE String_split(_, _)
String_split(s, sep) ==
  IF \A i \in DOMAIN s : s[i] # sep THEN <<s>>
  ELSE LET i == CHOOSE k \in DOMAIN s :
                  s[k] = sep /\ \A j \in 1..(k - 1) : s[j] # sep
       IN  <<SubSeq(s, 1, i - 1)>> \o String_split(SubSeq(s, i + 1, Len(s)), sep)

\* The members of a JSON object text from toks on, added to obj in the
\* order of the text (a repeated key keeps its last value).
RECURSIVE JSON_members(_, _)
JSON_members(toks, obj) ==
  IF Head(toks) = <<"punct", "}">> THEN obj
  ELSE LET m == IF Head(toks) = <<"punct", ",">> THEN Tail(toks) ELSE toks
       IN  JSON_members(SubSeq(m, 4, Len(m)), Map_set(obj, m[1][2], m[3]))

\* JSON.parse of an object text: white space is skipped, the object is the
\* set of its <<key, value>> properties.
JSON_parse(text) ==
  JSON_members(Tail(SelectSeq(text, LAMBDA t : t[1] # "ws")), {})

\* readData() and processData(data) of an object of class cls: the value
\* returned and the error thrown ("Метод readData() должен быть
\* реализован", "Метод processData() должен быть реализован").
FileProcessor_readData(cls) ==
  CASE cls = "CsvProcessor" -> [ret |-> CsvText, error |-> "none"]
    [] cls = "JsonProcessor" -> [ret |-> JsonText, error |-> "none"]
    [] OTHER -> [ret |-> JsUndefined,
                 error |-> "readData() must be implemented"]

FileProcessor_processData(cls, data) ==
  CASE cls = "CsvProcessor" ->
         [ret |-> [type |-> "csv", rows |-> String_split(data, ",")],
          error |-> "none"]
    [] cls = "JsonProcessor" -> [ret |-> JSON_parse(data), error |-> "none"]
    [] OTHER -> [ret |-> JsUndefined,
                 error |-> "processData() must be implemented"]

\* processFile(filename): the steps invoked in order, the argument of
\* openFile, the data read, the argument of processData, and the returned
\* value or the error thrown.  A throwing step ends the call.
FileProcessor_processFileCloseFirst(cls, filename) ==
  LET rd == FileProcessor_readData(cls)
      pr == FileProcessor_processData(cls, rd.ret)
  IN  [trace |-> <<"openFile", "readData", "closeFile", "processData">>,
       opened |-> filename, read |-> rd.ret, processed |-> rd.ret,
       ret |-> pr.ret, error |-> pr.error]
FileProcessor_processFile(cls, filename) ==
  LET rd == FileProcessor_readData(cls)
      pr == FileProcessor_processData(cls, rd.ret)
  IN  IF rd.error # "none"
      THEN [trace |-> <<"openFile", "readData">>, opened |-> filename,
            read |-> JsUndefined, processed |-> JsUndefined,
            ret |-> JsUndefined, error |-> rd.error]
      ELSE IF pr.error # "none"
      THEN [trace |-> <<"openFile", "readData", "processData">>,
            opened |-> filename, read |-> rd.ret, processed |-> rd.ret,
            ret |-> JsUndefined, error |-> pr.error]
      ELSE [trace |-> <<"openFile", "readData", "processData", "closeFile">>,
            opened |-> filename, read |-> rd.ret, processed |-> rd.ret,
            ret |-> pr.ret, error |-> "none"]

FileFrame == UNCHANGED <<calcVars, dbVars, cfgVars, csVars, obsVars, txVars,
    cofVars, mcVars, apVars, apiVars, bvVars, cartVars, fvVars, soVars,
    rbVars, guiVars, lgVars, tkVars, indVars, rcVars, stVars>>

FileInit == fpCalls = <<>>

\* new cls().processFile(filename)
FileProcessor_processFile_call ==
  \E cls \in FileClasses, filename \in FileNames :
    /\ Len(fpCalls) < MaxFileCalls
    /\ fpCalls' = Append(fpCalls,
         [cls |-> cls, filename |-> filename,
          out |-> FileProcessor_processFile(cls, filename)])
    /\ FileFrame

NextFile == FileProcessor_processFile_call

\* C14: processFile(filename) opens the file, reads, processes and closes
\* in that order, and returns what processData returned for the data that
\* readData returned (CsvProcessor: type csv with the rows csv, data,
\* example; JsonProcessor: the object with name John and age 30).
C14_OpenReadProcessClose ==
  \A i \in DOMAIN fpCalls :
    LET c == fpCalls[i] IN
    c.cls \in {"CsvProcessor", "JsonProcessor"} =>
      /\ c.out.error = "none"
      /\ c.out.trace = <<"openFile", "readData", "processData", "closeFile">>
      /\ c.out.opened = c.filename
      /\ c.out.processed = c.out.read
      /\ c.out.read = FileProcessor_readData(c.cls).ret
      /\ c.out.ret = FileProcessor_processData(c.cls, c.out.read).ret
      /\ IF c.cls = "CsvProcessor"
         THEN c.out.ret = [type |-> "csv",
                           rows |-> << <<"csv">>, <<"data">>, <<"example">> >>]
         ELSE c.out.ret = {<<"name", <<"str", "John">> >>,
                           <<"age", <<"num", 30>> >>}

C14_Witness ==
  /\ Len(fpCalls) = 2
  /\ fpCalls[1].cls = "CsvProcessor" /\ fpCalls[1].filename = "data.csv"
  /\ fpCalls[1].out.ret.rows[3] = <<"example">>
  /\ fpCalls[2].cls = "JsonProcessor" /\ fpCalls[2].filename = "data.json"
  /\ <<"age", <<"num", 30>> >> \in fpCalls[2].out.ret

\* C30: every processFile call that has executed openFile also executes
\* closeFile before control leaves processFile, also when readData or
\* processData throws.
C30_OpenedFileIsClosed ==
  \A i \in DOMAIN fpCalls :
    LET trace == fpCalls[i].out.trace IN
    (\E k \in DOMAIN trace : trace[k] = "openFile") =>
      (\E k \in DOMAIN trace : trace[k] = "closeFile")

(***************************************************************************)
(* Strategy 1: ShoppingCart and the payment strategies.                    *)
(***************************************************************************)
MaxItems == 2
MaxCheckouts == 2

Prices == {500, 1000}
\* What setPaymentStrategy is given: null or an object of one of the
\* classes.
PaymentClasses ==
  {"null", "PaymentStrategy", "CreditCardPayment", "PayPalPayment",
   "CryptoPayment"}

\* strategy.pay(amount): the concrete strategies print the amount,
\* PaymentStrategy throws ("Метод pay() должен быть реализован").
PaymentStrategy_pay(cls, amount) ==
  IF cls = "PaymentStrategy"
  THEN [printed |-> FALSE, error |-> "pay() must be implemented"]
  ELSE [printed |-> TRUE, error |-> "none"]

\* checkout() of a cart with the given fields: the pay invocations after
\* the call (<<class, amount, printed>>), the amount and the error thrown
\* ("Стратегия оплаты не выбрана" without a strategy).
ShoppingCart_checkoutUnguarded(strategy, amount, pays) ==
  IF strategy = "null"
  THEN [pays |-> pays, amount |-> amount, error |-> "TypeError"]
  ELSE LET p == PaymentStrategy_pay(strategy, amount) IN
       [pays |-> Append(pays, <<strategy, amount, p.printed>>),
        amount |-> amount, error |-> p.error]
ShoppingCart_checkout(strategy, amount, pays) ==
  IF strategy = "null"
  THEN [pays |-> pays, amount |-> amount,
        error |-> "payment strategy not chosen"]
  ELSE LET p == PaymentStrategy_pay(strategy, amount) IN
       [pays |-> Append(pays, <<strategy, amount, p.printed>>),
        amount |-> amount, error |-> p.error]

\* this._amount += price
ShoppingCart_addItemReplaces(amount, price) == price
ShoppingCart_addItem(amount, price) == amount + price

CartFrame == UNCHANGED <<calcVars, dbVars, cfgVars, csVars, obsVars, txVars,
    cofVars, mcVars, apVars, apiVars, bvVars, fpVars, fvVars, soVars, rbVars,
    guiVars, lgVars, tkVars, indVars, rcVars, stVars>>

\* const cart = new ShoppingCart()
CartInit ==
  /\ cartStrategy = "null"
  /\ cartAmount = 0
  /\ cartItems = <<>>
  /\ cartPays = <<>>
  /\ cartLastSet = "null"
  /\ cartCheckouts = <<>>

\* cart.addItem(price)
ShoppingCart_addItem_call ==
  \E price \in Prices :
    /\ Len(cartItems) < MaxItems
    /\ cartAmount' = ShoppingCart_addItem(cartAmount, price)
    /\ cartItems' = Append(cartItems, price)
    /\ UNCHANGED <<cartStrategy, cartPays, cartLastSet, cartCheckouts>>
    /\ CartFrame

\* cart.setPaymentStrategy(strategy)
ShoppingCart_setPaymentStrategy ==
  \E strategy \in PaymentClasses :
    /\ cartStrategy' = strategy
    /\ cartLastSet' = strategy
    /\ UNCHANGED <<cartAmount, cartItems, cartPays, cartCheckouts>>
    /\ CartFrame

\* cart.checkout()
ShoppingCart_checkout_call ==
  LET r == ShoppingCart_checkout(cartStrategy, cartAmount, cartPays) IN
  /\ Len(cartCheckouts) < MaxCheckouts
  /\ cartPays' = r.pays
  /\ cartAmount' = r.amount
  /\ cartCheckouts' = Append(cartCheckouts,
       [given |-> cartLastSet, items |-> cartItems, error |-> r.error,
        paid |-> SubSeq(r.pays, Len(cartPays) + 1, Len(r.pays)),
        amountBefore |-> cartAmount, amountAfter |-> r.amount])
  /\ UNCHANGED <<cartStrategy, cartItems, cartLastSet>>
  /\ CartFrame

NextCart ==
  \/ ShoppingCart_addItem_call
  \/ ShoppingCart_setPaymentStrategy
  \/ ShoppingCart_checkout_call

\* The sum of a sequence of prices.
RECURSIVE SumOf(_)
SumOf(s) == IF s = <<>> THEN 0 ELSE Head(s) + SumOf(Tail(s))

\* C15: checkout() on a cart with no payment strategy set throws the
\* error "Стратегия оплаты не выбрана", performs no payment and leaves
\* the amount unchanged.
C15_NoStrategyNoPayment ==
  \A i \in DOMAIN cartCheckouts :
    LET c == cartCheckouts[i] IN
    c.given = "null" =>
      /\ c.error = "payment strategy not chosen"
      /\ c.paid = <<>>
      /\ c.amountAfter = c.amountBefore

C15_Witness ==
  /\ Len(cartCheckouts) = 1
  /\ cartCheckouts[1].given = "null"
  /\ cartCheckouts[1].error = "payment strategy not chosen"
  /\ cartItems = <<1000, 500>>
  /\ cartAmount = 1500

\* C16: each checkout() pays exactly once, through the strategy given to
\* the most recent setPaymentStrategy call, the sum of all prices added so
\* far, and does not change the amount: a second checkout after a switch
\* of strategy pays the same sum (1500 and 1500).
C16_PaysSumThroughLatestStrategy ==
  /\ \A i \in DOMAIN cartCheckouts :
       LET c == cartCheckouts[i] IN
       c.given # "null" =>
         /\ c.paid = << <<c.given, SumOf(c.items),
                          c.given # "PaymentStrategy">> >>
         /\ c.amountAfter = c.amountBefore
  /\ cartAmount = SumOf(cartItems)

C16_Witness ==
  /\ Len(cartCheckouts) = 2
  /\ cartCheckouts[1].paid = << <<"CreditCardPayment", 1500, TRUE>> >>
  /\ cartCheckouts[2].paid = << <<"CryptoPayment", 1500, TRUE>> >>

(***************************************************************************)
(* Strategy 2: FormValidator and the validation strategies.  A string is   *)
(* the sequence of its characters.                                         *)
(***************************************************************************)
MaxValidatorCalls == 3

\* "test@example.com"
Str_testEmail ==
  <<"t", "e", "s", "t", "@", "e", "x", "a", "m", "p", "l", "e", ".", "c",
    "o", "m">>
\* "invalid-email"
Str_invalidEmail ==
  <<"i", "n", "v", "a", "l", "i", "d", "-", "e", "m", "a", "i", "l">>
\* "Weak"
Str_Weak ==
  <<"W", "e", "a", "k">>
\* "StrongPass1"
Str_StrongPass1 ==
  <<"S", "t", "r", "o", "n", "g", "P", "a", "s", "s", "1">>
\* "+7 999 123-45-67"
Str_phone ==
  <<"+", "7", " ", "9", "9", "9", " ", "1", "2", "3", "-", "4", "5", "-",
    "6", "7">>

FormValues == {Str_testEmail, Str_invalidEmail, Str_Weak, Str_StrongPass1,
               Str_phone}
ValidationStrategies == {"isEmail", "isPhone", "isStrongPassword"}

\* The character classes \d, \s and [A-Z].
RegExp_digit == {"0", "1", "2", "3", "4", "5", "6", "7", "8", "9"}
RegExp_space == {" ", "\t", "\n", "\r"}
RegExp_upper ==
  {"A", "B", "C", "D", "E", "F", "G", "H", "I", "J", "K", "L", "M", "N",
   "O", "P", "Q", "R", "S", "T", "U", "V", "W", "X", "Y", "Z"}

\* /^[^\s@]+@[^\s@]+\.[^\s@]+$/.test(value): one @ at p, a dot at q, with
\* at least one character before p, between p and q and after q, and no
\* white space and no other @ anywhere.
isEmail(value) ==
  \E p \in DOMAIN value, q \in DOMAIN value :
    /\ 1 < p /\ p + 1 < q /\ q < Len(value)
    /\ value[p] = "@" /\ value[q] = "."
    /\ \A i \in DOMAIN value :
         i # p => value[i] \notin RegExp_space \cup {"@"}

\* /^\+?[\d\s-]{10,}$/.test(value)
isPhone(value) ==
  LET rest == IF value # <<>> /\ value[1] = "+" THEN Tail(value) ELSE value
  IN  /\ Len(rest) >= 10
      /\ \A i \in DOMAIN rest :
           rest[i] \in RegExp_digit \cup RegExp_space \cup {"-"}

\* value.length >= 8 && /[A-Z]/.test(value) && /\d/.test(value)
isStrongPassword(value) ==
  /\ Len(value) >= 8
  /\ \E i \in DOMAIN value : value[i] \in RegExp_upper
  /\ \E i \in DOMAIN value : value[i] \in RegExp_digit

\* this._strategy(value)
FormValidator_validate(strategy, value) ==
  CASE strategy = "isEmail" -> isEmail(value)
    [] strategy = "isPhone" -> isPhone(value)
    [] strategy = "isStrongPassword" -> isStrongPassword(value)

\* The methods class FormValidator defines; calling any other name on a
\* validator throws a TypeError (validator.name is not a function).
FormValidator_methods == {"validate"}

FvFrame == UNCHANGED <<calcVars, dbVars, cfgVars, csVars, obsVars, txVars,
    cofVars, mcVars, apVars, apiVars, bvVars, fpVars, cartVars, soVars,
    rbVars, guiVars, lgVars, tkVars, indVars, rcVars, stVars>>

\* const validator = new FormValidator(validationStrategies.isEmail)
FvInit ==
  /\ fvStrategy = "isEmail"
  /\ fvRequested = "isEmail"
  /\ fvLog = <<>>
  /\ fvThrown = FALSE

\* validator = new FormValidator(strategy)
FormValidator_new ==
  \E strategy \in ValidationStrategies :
    /\ ~fvThrown
    /\ Len(fvLog) < MaxValidatorCalls
    /\ fvStrategy' = strategy
    /\ fvRequested' = strategy
    /\ fvLog' = Append(fvLog, [op |-> "new", strategy |-> strategy,
                               value |-> <<>>, ret |-> FALSE, error |-> "none"])
    /\ UNCHANGED fvThrown
    /\ FvFrame

\* console.log(validator.validate(value))
FormValidator_validate_call ==
  \E value \in FormValues :
    /\ ~fvThrown
    /\ Len(fvLog) < MaxValidatorCalls
    /\ fvLog' = Append(fvLog,
         [op |-> "validate", strategy |-> fvRequested, value |-> value,
          ret |-> FormValidator_validate(fvStrategy, value), error |-> "none"])
    /\ UNCHANGED <<fvStrategy, fvRequested, fvThrown>>
    /\ FvFrame

\* validator.setStrategy(strategy): FormValidator has no such method, the
\* call throws, nothing catches it and the script ends.
FormValidator_setStrategy_call ==
  \E strategy \in ValidationStrategies :
    /\ ~fvThrown
    /\ Len(fvLog) < MaxValidatorCalls
    /\ "setStrategy" \notin FormValidator_methods
    /\ fvRequested' = strategy
    /\ fvLog' = Append(fvLog, [op |-> "setStrategy", strategy |-> strategy,
                               value |-> <<>>, ret |-> FALSE,
                               error |-> "TypeError"])
    /\ fvThrown' = TRUE
    /\ UNCHANGED fvStrategy
    /\ FvFrame

NextFv ==
  \/ FormValidator_new
  \/ FormValidator_validate_call
  \/ FormValidator_setStrategy_call

\* C17: the strategy of a FormValidator can be replaced at run time with
\* validator.setStrategy(s): the call succeeds and afterwards
\* validate(value) returns s(value); after setStrategy(isStrongPassword),
\* validate('Weak') is false and validate('StrongPass1') is true.
C17_SetStrategyReplaces ==
  /\ \A i \in DOMAIN fvLog :
       LET c == fvLog[i] IN
       /\ c.op = "setStrategy" => c.error = "none"
       /\ c.op = "validate" =>
            c.ret = FormValidator_validate(c.strategy, c.value)
  /\ fvStrategy = fvRequested

(***************************************************************************)
(* Strategy 3: Sorter with QuickSortStrategy and ReverseSortStrategy.      *)
(* The items are finite numbers, duplicates included.                      *)
(***************************************************************************)
MaxSortLen == 4

SortValues == 1..4
SortArrays == UNION {[1..n -> SortValues] : n \in 0..MaxSortLen}
SortStrategies == {"QuickSortStrategy", "ReverseSortStrategy"}

\* (a, b) => a > b ? 1 : -1
QuickSortStrategy_compareReversed(a, b) == IF a < b THEN 1 ELSE -1
QuickSortStrategy_compare(a, b) == IF a > b THEN 1 ELSE -1

\* Array.prototype.sort with that comparator, as an insertion sort: every
\* element is put before the first element of the sorted part that the
\* comparator places it before.
RECURSIVE Array_sort(_)
Array_sort(items) ==
  IF items = <<>> THEN <<>>
  ELSE LET sorted == Array_sort(SubSeq(items, 1, Len(items) - 1))
           x == items[Len(items)]
           before == {i \in DOMAIN sorted :
                        QuickSortStrategy_compare(x, sorted[i]) < 0}
           at == IF before = {} THEN Len(sorted) + 1
                 ELSE CHOOSE i \in before : \A j \in before : i <= j
       IN  SubSeq(sorted, 1, at - 1) \o <<x>> \o SubSeq(sorted, at, Len(sorted))

\* Array.prototype.reverse
Array_reverse(items) ==
  [i \in 1..Len(items) |-> items[Len(items) + 1 - i]]

\* strategy.sort(items): the caller's array after the call and the array
\* returned.  Both strategies work on the copy [...items].
QuickSortStrategy_sortInPlace(items) ==
  [items |-> Array_sort(items), ret |-> Array_sort(items)]
QuickSortStrategy_sort(items) ==
  [items |-> items, ret |-> Array_sort(items)]

ReverseSortStrategy_sort(items) ==
  [items |-> items, ret |-> Array_reverse(items)]

\* Sorter.sort(items): this.strategy.sort(items)
Sorter_sort(strategy, items) ==
  IF strategy = "QuickSortStrategy" THEN QuickSortStrategy_sort(items)
  ELSE ReverseSortStrategy_sort(items)

NoSort == [given |-> "none", input |-> <<>>, ret |-> <<>>]

SoFrame == UNCHANGED <<calcVars, dbVars, cfgVars, csVars, obsVars, txVars,
    cofVars, mcVars, apVars, apiVars, bvVars, fpVars, cartVars, fvVars,
    rbVars, guiVars, lgVars, tkVars, indVars, rcVars, stVars>>

\* const numbers = [3, 1, 4, 2];
\* const sorter = new Sorter<number>(new QuickSortStrategy());
SoInit ==
  /\ soNumbers = <<3, 1, 4, 2>>
  /\ soStrategy = "QuickSortStrategy"
  /\ soRequested = "QuickSortStrategy"
  /\ soOut = NoSort

\* numbers = [...]: another array to sort
Numbers_assign ==
  \E items \in SortArrays :
    /\ soNumbers' = items
    /\ soOut' = NoSort
    /\ UNCHANGED <<soStrategy, soRequested>>
    /\ SoFrame

\* sorter.setStrategy(strategy)
Sorter_setStrategy ==
  \E strategy \in SortStrategies :
    /\ soStrategy' = strategy
    /\ soRequested' = strategy
    /\ UNCHANGED <<soNumbers, soOut>>
    /\ SoFrame

\* console.log(sorter.sort(numbers))
Sorter_sort_call ==
  LET r == Sorter_sort(soStrategy, soNumbers) IN
  /\ soNumbers' = r.items
  /\ soOut' = [given |-> soRequested, input |-> soNumbers, ret |-> r.ret]
  /\ UNCHANGED <<soStrategy, soRequested>>
  /\ SoFrame

NextSo == Numbers_assign \/ Sorter_setStrategy \/ Sorter_sort_call

\* How often v occurs in s.
CountOf(s, v) == Cardinality({i \in DOMAIN s : s[i] = v})

\* C18: Sorter.sort(items) returns the result of the most recently set
\* strategy, ascending order for QuickSortStrategy and the reversed input
\* order for ReverseSortStrategy, and never modifies the input array:
\* [3, 1, 4, 2] gives [1, 2, 3, 4] and then [2, 4, 1, 3].
C18_SortByLatestStrategy ==
  soOut.given # "none" =>
    /\ soNumbers = soOut.input
    /\ Len(soOut.ret) = Len(soOut.input)
    /\ soOut.given = "QuickSortStrategy" =>
         /\ \A i \in 1..(Len(soOut.ret) - 1) : soOut.ret[i] <= soOut.ret[i + 1]
         /\ \A v \in SortValues : CountOf(soOut.ret, v) = CountOf(soOut.input, v)
         /\ soOut.input = <<3, 1, 4, 2>> => soOut.ret = <<1, 2, 3, 4>>
    /\ soOut.given = "ReverseSortStrategy" =>
         /\ \A i \in DOMAIN soOut.ret :
              soOut.ret[i] = soOut.input[Len(soOut.input) + 1 - i]
         /\ soOut.input = <<3, 1, 4, 2>> => soOut.ret = <<2, 4, 1, 3>>

C18_Witness ==
  /\ soOut.given = "ReverseSortStrategy"
  /\ soOut.input = <<3, 1, 4, 2>>
  /\ soOut.ret = <<2, 4, 1, 3>>
  /\ soNumbers = <<3, 1, 4, 2>>

(***************************************************************************)
(* Builder 2: RequestBuilder.  The builder owns one headers object; a      *)
(* built request holds a reference to it, not a copy.                      *)
(***************************************************************************)
MaxBuilderCalls == 4

RbMethods == {"POST", "PUT"}
RbUrls == {"/api/users", "/api/posts"}
RbKeys == {"Content-Type", "Accept"}
RbValues == {"application/json", "text/plain"}
RbBodies == {"{ name: 'John' }", "{}"}

\* The reference a setter returns (this) and the reference to the
\* builder's headers object.
RbThis == "this"
RbHeadersRef == "this.headers"

\* The setters and build() on the builder's fields: the fields after the
\* call and the returned value.
RequestBuilder_setMethod(this, method) ==
  [this |-> [this EXCEPT !.method = method], ret |-> RbThis]

RequestBuilder_setUrl(this, url) ==
  [this |-> [this EXCEPT !.url = url], ret |-> RbThis]

\* this.headers[key] = value
RequestBuilder_setHeaderFresh(this, key, value) ==
  [this |-> [this EXCEPT !.headers = {<<key, value>>}], ret |-> RbThis]
RequestBuilder_setHeader(this, key, value) ==
  [this |-> [this EXCEPT !.headers = Map_set(this.headers, key, value)],
   ret |-> RbThis]

RequestBuilder_setBody(this, body) ==
  [this |-> [this EXCEPT !.body = body], ret |-> RbThis]

RequestBuilder_build(this) ==
  [this |-> this,
   ret |-> [method |-> this.method, url |-> this.url,
            headers |-> RbHeadersRef, body |-> this.body]]

RbFrame == UNCHANGED <<calcVars, dbVars, cfgVars, csVars, obsVars, txVars,
    cofVars, mcVars, apVars, apiVars, bvVars, fpVars, cartVars, fvVars,
    soVars, guiVars, lgVars, tkVars, indVars, rcVars, stVars>>

\* new RequestBuilder()
RbInit ==
  /\ rbThis = [method |-> "GET", url |-> "", headers |-> {}, body |-> "null"]
  /\ rbRet = "none"
  /\ rbBuilt = <<>>
  /\ rbLog = <<>>

\* builder.setMethod(method)
RequestBuilder_setMethod_call ==
  \E method \in RbMethods :
    LET r == RequestBuilder_setMethod(rbThis, method) IN
    /\ Len(rbLog) < MaxBuilderCalls
    /\ rbThis' = r.this
    /\ rbRet' = r.ret
    /\ rbLog' = Append(rbLog, <<"setMethod", "", method>>)
    /\ UNCHANGED rbBuilt
    /\ RbFrame

\* builder.setUrl(url)
RequestBuilder_setUrl_call ==
  \E url \in RbUrls :
    LET r == RequestBuilder_setUrl(rbThis, url) IN
    /\ Len(rbLog) < MaxBuilderCalls
    /\ rbThis' = r.this
    /\ rbRet' = r.ret
    /\ rbLog' = Append(rbLog, <<"setUrl", "", url>>)
    /\ UNCHANGED rbBuilt
    /\ RbFrame

\* builder.setHeader(key, value)
RequestBuilder_setHeader_call ==
  \E key \in RbKeys, value \in RbValues :
    LET r == RequestBuilder_setHeader(rbThis, key, value) IN
    /\ Len(rbLog) < MaxBuilderCalls
    /\ rbThis' = r.this
    /\ rbRet' = r.ret
    /\ rbLog' = Append(rbLog, <<"setHeader", key, value>>)
    /\ UNCHANGED rbBuilt
    /\ RbFrame

\* builder.setBody(body)
RequestBuilder_setBody_call ==
  \E body \in RbBodies :
    LET r == RequestBuilder_setBody(rbThis, body) IN
    /\ Len(rbLog) < MaxBuilderCalls
    /\ rbThis' = r.this
    /\ rbRet' = r.ret
    /\ rbLog' = Append(rbLog, <<"setBody", "", body>>)
    /\ UNCHANGED rbBuilt
    /\ RbFrame

\* const request = builder.build()
RequestBuilder_build_call ==
  LET r == RequestBuilder_build(rbThis) IN
  /\ Len(rbLog) < MaxBuilderCalls
  /\ rbThis' = r.this
  /\ rbRet' = "request"
  /\ rbLog' = Append(rbLog, <<"build", "", "">>)
  /\ rbBuilt' = Append(rbBuilt, [request |-> r.ret, at |-> Len(rbLog) + 1])
  /\ RbFrame

NextRb ==
  \/ RequestBuilder_setMethod_call
  \/ RequestBuilder_setUrl_call
  \/ RequestBuilder_setHeader_call
  \/ RequestBuilder_setBody_call
  \/ RequestBuilder_build_call

\* request.headers: the object the reference points to, as it is now.
RbHeadersOf(request) ==
  IF request.headers = RbHeadersRef THEN rbThis.headers ELSE {}

\* The value of the last call of setter with key in the log, or default.
RbLastSet(setter, key, default) ==
  LET at == {i \in DOMAIN rbLog : rbLog[i][1] = setter /\ rbLog[i][2] = key}
  IN  IF at = {} THEN default
      ELSE rbLog[CHOOSE i \in at : \A j \in at : j <= i][3]

\* C19: every setter returns the builder itself, and build() returns an
\* object whose method, url and body are the values of the last
\* corresponding setter call (defaults 'GET', '' and null) and whose
\* headers hold the last value set for each key.
C19_BuildReturnsLastValues ==
  /\ rbLog # <<>> /\ rbLog[Len(rbLog)][1] # "build" => rbRet = RbThis
  /\ \A i \in DOMAIN rbBuilt :
       rbBuilt[i].at = Len(rbLog) =>
         LET request == rbBuilt[i].request IN
         /\ request.method = RbLastSet("setMethod", "", "GET")
         /\ request.url = RbLastSet("setUrl", "", "")
         /\ request.body = RbLastSet("setBody", "", "null")
         /\ \A k \in RbKeys :
              LET v == RbLastSet("setHeader", k, "unset") IN
              IF v = "unset" THEN ~Map_has(RbHeadersOf(request), k)
              ELSE /\ Map_has(RbHeadersOf(request), k)
                   /\ Map_get(RbHeadersOf(request), k) = v
         /\ \A e \in RbHeadersOf(request) : e[1] \in RbKeys

C19_Witness ==
  /\ rbLog = << <<"setMethod", "", "POST">>,
                <<"setHeader", "Content-Type", "text/plain">>,
                <<"setHeader", "Content-Type", "application/json">>,
                <<"build", "", "">> >>
  /\ rbBuilt[1].request.method = "POST"
  /\ rbBuilt[1].request.url = ""
  /\ RbHeadersOf(rbBuilt[1].request) = {<<"Content-Type", "application/json">>}

\* The value of the last call of setter with key among the first n calls
\* of the log, or default.
RbLastSetBefore(setter, key, default, n) ==
  LET at == {i \in 1..n : rbLog[i][1] = setter /\ rbLog[i][2] = key}
  IN  IF at = {} THEN default
      ELSE rbLog[CHOOSE i \in at : \A j \in at : j <= i][3]

\* The headers set by the first n calls of the log.
RbHeadersBefore(n) ==
  {<<key, RbLastSetBefore("setHeader", key, "", n)>> :
     key \in {k \in RbKeys : \E i \in 1..n :
                rbLog[i][1] = "setHeader" /\ rbLog[i][2] = k}}

\* C29: a request returned by build() is independent of the builder: its
\* method, url, headers and body stay what they were when build() returned,
\* whatever setMethod, setUrl, setHeader or setBody calls follow.
C29_BuiltRequestIndependent ==
  \A i \in DOMAIN rbBuilt :
    LET request == rbBuilt[i].request
        n == rbBuilt[i].at
    IN  /\ request.method = RbLastSetBefore("setMethod", "", "GET", n)
        /\ request.url = RbLastSetBefore("setUrl", "", "", n)
        /\ request.body = RbLastSetBefore("setBody", "", "null", n)
        /\ RbHeadersOf(request) = RbHeadersBefore(n)

(***************************************************************************)
(* Abstract factory: GUIFactory, its two factories and renderUI.           *)
(***************************************************************************)
MaxRenders == 7

GuiFactories == {"WindowsFactory", "MacOSFactory"}

\* factory.createButton() and factory.createCheckbox(): the class of the
\* new product.
GUIFactory_createButton(factory) ==
  IF factory = "WindowsFactory" THEN "WindowsButton" ELSE "MacOSButton"

GUIFactory_createCheckboxWindows(factory) == "WindowsCheckbox"
GUIFactory_createCheckbox(factory) ==
  IF factory = "WindowsFactory" THEN "WindowsCheckbox" ELSE "MacOSCheckbox"

\* product.render(): the console line, as <<element, style>>.
Product_render(product) ==
  CASE product = "WindowsButton" -> <<"button", "Windows">>
    [] product = "MacOSButton" -> <<"button", "macOS">>
    [] product = "WindowsCheckbox" -> <<"checkbox", "Windows">>
    [] product = "MacOSCheckbox" -> <<"checkbox", "macOS">>

\* renderUI(factory): the products created and the lines written.
renderUI(factory) ==
  LET button == GUIFactory_createButton(factory)
      checkbox == GUIFactory_createCheckbox(factory)
  IN  [button |-> button, checkbox |-> checkbox,
       console |-> <<Product_render(button), Product_render(checkbox)>>]

GuiFrame == UNCHANGED <<calcVars, dbVars, cfgVars, csVars, obsVars, txVars,
    cofVars, mcVars, apVars, apiVars, bvVars, fpVars, cartVars, fvVars,
    soVars, rbVars, lgVars, tkVars, indVars, rcVars, stVars>>

GuiInit == guiRuns = <<>>

\* renderUI(new WindowsFactory()), renderUI(new MacOSFactory())
renderUI_call ==
  \E factory \in GuiFactories :
    /\ Len(guiRuns) < MaxRenders
    /\ guiRuns' = Append(guiRuns, [factory |-> factory, ui |-> renderUI(factory)])
    /\ GuiFrame

NextGui == renderUI_call

\* C20: the button and the checkbox that renderUI(factory) creates and
\* renders belong to the family of the factory (WindowsFactory: Windows
\* products only, MacOSFactory: macOS products only); two families are
\* never mixed within one renderUI call.
C20_OneFamilyPerRender ==
  \A i \in DOMAIN guiRuns :
    LET c == guiRuns[i]
        style == IF c.factory = "WindowsFactory" THEN "Windows" ELSE "macOS"
        family == IF c.factory = "WindowsFactory"
                  THEN {"WindowsButton", "WindowsCheckbox"}
                  ELSE {"MacOSButton", "MacOSCheckbox"}
    IN  /\ {c.ui.button, c.ui.checkbox} \subseteq family
        /\ c.ui.console = << <<"button", style>>, <<"checkbox", style>> >>

C20_Witness ==
  /\ Len(guiRuns) = 2
  /\ guiRuns[1].factory = "WindowsFactory"
  /\ guiRuns[1].ui.checkbox = "WindowsCheckbox"
  /\ guiRuns[2].factory = "MacOSFactory"
  /\ guiRuns[2].ui.console = << <<"button", "macOS">>, <<"checkbox", "macOS">> >>

(***************************************************************************)
(* Factory method: Logistics with RoadLogistics and SeaLogistics.          *)
(* A string is the sequence of its pieces.                                 *)
(***************************************************************************)
MaxDeliveries == 7

LogisticsClasses == {"RoadLogistics", "SeaLogistics"}

\* this.createTransport(): the class of the new transport.
Logistics_createTransportTruck(cls) == "Truck"
Logistics_createTransport(cls) ==
  IF cls = "RoadLogistics" THEN "Truck" ELSE "Ship"

\* transport.deliver(): "Грузовик доставит по суше" for a Truck,
\* "Корабль доставит по морю" for a Ship.
Transport_deliver(transport) ==
  IF transport = "Truck" THEN <<"truck delivers by land">>
  ELSE <<"ship delivers by sea">>

\* planDelivery(): the transports created and the returned string
\* `Доставка груза: ${transport.deliver()}`.
Logistics_planDelivery(cls) ==
  LET transport == Logistics_createTransport(cls) IN
  [created |-> <<transport>>,
   ret |-> <<"cargo delivery: ">> \o Transport_deliver(transport)]

LgFrame == UNCHANGED <<calcVars, dbVars, cfgVars, csVars, obsVars, txVars,
    cofVars, mcVars, apVars, apiVars, bvVars, fpVars, cartVars, fvVars,
    soVars, rbVars, guiVars, tkVars, indVars, rcVars, stVars>>

LgInit == lgCalls = <<>>

\* clientCode(new cls())
clientCode_call ==
  \E cls \in LogisticsClasses :
    /\ Len(lgCalls) < MaxDeliveries
    /\ lgCalls' = Append(lgCalls, [cls |-> cls, out |-> Logistics_planDelivery(cls)])
    /\ LgFrame

NextLg == clientCode_call

\* C21: planDelivery() calls the receiver's own createTransport() exactly
\* once and returns 'Доставка груза: ' followed by that transport's
\* deliver() text: the truck text for RoadLogistics, the ship text for
\* SeaLogistics.
C21_PlanDeliveryUsesOwnTransport ==
  \A i \in DOMAIN lgCalls :
    LET c == lgCalls[i] IN
    IF c.cls = "RoadLogistics"
    THEN /\ c.out.created = <<"Truck">>
         /\ c.out.ret = <<"cargo delivery: ", "truck delivers by land">>
    ELSE /\ c.out.created = <<"Ship">>
         /\ c.out.ret = <<"cargo delivery: ", "ship delivers by sea">>

C21_Witness ==
  /\ Len(lgCalls) = 2
  /\ lgCalls[1].cls = "RoadLogistics"
  /\ lgCalls[1].out.ret[2] = "truck delivers by land"
  /\ lgCalls[2].cls = "SeaLogistics"
  /\ lgCalls[2].out.created = <<"Ship">>

(***************************************************************************)
(* Facade 3: TaskFacade over TaskApproval, TaskIndication and              *)
(* TaskNotification.  SimpleRecord is the platform's record class and is   *)
(* defined nowhere in the repository: insert() either adds a record to its *)
(* table and returns the new id, or fails and returns null (0).            *)
(***************************************************************************)
MaxTaskCalls == 4

TaskHelpers == {"TaskApproval", "TaskIndication", "TaskNotification"}

\* new SimpleRecord(table).insert() on the list of inserted records.
SimpleRecord_insert(records, table, ok) ==
  IF ok THEN [records |-> Append(records, table), ret |-> Len(records) + 1]
  ELSE [records |-> records, ret |-> 0]

\* The method each helper class defines on its instances, and what it
\* does: createApproval and createIndication return insert()'s result,
\* sendNotification returns !!insert().
TaskHelper_method(cls) ==
  CASE cls = "TaskApproval" -> "createApproval"
    [] cls = "TaskIndication" -> "createIndication"
    [] cls = "TaskNotification" -> "sendNotification"

TaskHelper_call(cls, records, ok) ==
  CASE cls = "TaskApproval" -> SimpleRecord_insert(records, "approval", ok)
    [] cls = "TaskIndication" -> SimpleRecord_insert(records, "indication", ok)
    [] cls = "TaskNotification" ->
         LET r == SimpleRecord_insert(records, "notification", ok) IN
         [records |-> r.records, ret |-> r.ret # 0]

\* The static members of a helper class: none is declared, so
\* TaskApproval.createApproval (a property of the class, not of an
\* instance) is undefined.
TaskHelper_staticMethods(cls) == {}

\* startBusinessProcess(): it calls the methods on the classes
\* (TaskApproval.createApproval(), ...), not on this.taskApproval, ...;
\* calling an undefined property throws a TypeError and ends the call.
TaskFacade_startBusinessProcess(records, ok) ==
  IF \E cls \in TaskHelpers :
       TaskHelper_method(cls) \notin TaskHelper_staticMethods(cls)
  THEN [records |-> records, trace |-> <<>>, ret |-> <<>>,
        error |-> "TypeError"]
  ELSE LET approval == TaskHelper_call("TaskApproval", records, ok[1])
           indication == TaskHelper_call("TaskIndication", approval.records, ok[2])
           notificationIsSend ==
             TaskHelper_call("TaskNotification", indication.records, ok[3])
       IN  [records |-> notificationIsSend.records,
            trace |-> <<"createApproval", "createIndication", "sendNotification">>,
            ret |-> <<approval.ret, indication.ret, notificationIsSend.ret>>,
            error |-> "none"]

TkFrame == UNCHANGED <<calcVars, dbVars, cfgVars, csVars, obsVars, txVars,
    cofVars, mcVars, apVars, apiVars, bvVars, fpVars, cartVars, fvVars,
    soVars, rbVars, guiVars, lgVars, indVars, rcVars, stVars>>

\* const taskProcess = new TaskFacade()
TkInit ==
  /\ tkRecords = <<>>
  /\ tkLog = <<>>

\* taskProcess.startBusinessProcess()
TaskFacade_startBusinessProcess_call ==
  \E ok \in [1..3 -> BOOLEAN] :
    LET r == TaskFacade_startBusinessProcess(tkRecords, ok) IN
    /\ Len(tkLog) < MaxTaskCalls
    /\ tkRecords' = r.records
    /\ tkLog' = Append(tkLog, [op |-> "startBusinessProcess", trace |-> r.trace,
                               ret |-> r.ret, error |-> r.error])
    /\ TkFrame

\* A helper used on its own: taskProcess.taskApproval.createApproval(), ...
TaskHelper_call_call ==
  \E cls \in TaskHelpers, ok \in BOOLEAN :
    LET r == TaskHelper_call(cls, tkRecords, ok) IN
    /\ Len(tkLog) < MaxTaskCalls
    /\ tkRecords' = r.records
    /\ tkLog' = Append(tkLog, [op |-> TaskHelper_method(cls),
                               trace |-> <<TaskHelper_method(cls)>>,
                               ret |-> <<r.ret>>, error |-> "none"])
    /\ TkFrame

NextTk == TaskFacade_startBusinessProcess_call \/ TaskHelper_call_call

\* C22: startBusinessProcess() forwards one call to each of its three
\* helpers, creating the approval, then the indication, then sending the
\* notification, and returns the three results as
\* [approval, indication, notificationIsSend].
C22_ForwardsToThreeHelpers ==
  \A i \in DOMAIN tkLog :
    tkLog[i].op = "startBusinessProcess" =>
      /\ tkLog[i].error = "none"
      /\ tkLog[i].trace =
           <<"createApproval", "createIndication", "sendNotification">>
      /\ Len(tkLog[i].ret) = 3

(***************************************************************************)
(* Decorator 4: TaskIndication and its decorators.  ss (the event queue    *)
(* and the log) and SimpleRecord belong to the platform: the queue and the *)
(* log are lists, the task record is its urgency.                          *)
(***************************************************************************)
MaxIndCalls == 3

Urgencies == {"low", "medium", "high"}
IndTaskId == "174524763995818197"

\* What a config gives for eventName and tableId: a string or nothing.
IncidentConfigs ==
  {[eventName |-> JsUndefined, tableId |-> JsUndefined],
   [eventName |-> JsString("custom-incident-event"),
    tableId |-> JsString("custom_table_id")]}
RequestConfigs ==
  {[eventName |-> JsUndefined, tableId |-> JsUndefined],
   [eventName |-> JsString("custom-request-event"),
    tableId |-> JsString("custom_table_id")]}

\* a || b
JsOr(a, b) == IF ToBoolean(a) THEN a ELSE b

\* The constructors of the two decorators: this.eventName, this.tableId.
IncidentIndicationDecorator_new(config) ==
  [eventName |-> JsOr(config.eventName, JsString("itsm-incident-sla")),
   tableId |-> JsOr(config.tableId, JsString("156950677111866258"))]

RequestIndicationDecorator_new(config) ==
  [eventName |-> JsOr(config.eventName, JsString("itsm-request-sla")),
   tableId |-> JsOr(config.tableId, JsString("156950616617772294"))]

\* The methods an object of each class has, its own and the inherited.
Indication_methods(cls) ==
  CASE cls = "TaskIndication" ->
         {"getTaskUrgency", "getTask", "createIndication"}
    [] cls = "IncidentIndicationDecorator" ->
         {"getTaskUrgency", "createIndication", "_validateIncident",
          "_notifyIncidentCreated"}
    [] cls = "RequestIndicationDecorator" ->
         {"getTaskUrgency", "createIndication", "_validateRequest",
          "_notifyRequestCreated", "createRequest"}

\* TaskIndication.createIndication(eventName, tableId):
\* ss.eventQueue(eventName, tableId, this.taskId, this.getTaskUrgency())
TaskIndication_createIndication(queue, eventName, tableId, urgency) ==
  Append(queue, <<eventName, tableId, IndTaskId, urgency>>)

\* TaskIndicationDecorator.createIndication(eventName, tableId)
TaskIndicationDecorator_createIndication(queue, eventName, tableId, urgency) ==
  TaskIndication_createIndication(queue, eventName, tableId, urgency)

\* _validateIncident(): throws for a low urgency, otherwise logs and
\* returns nothing.
IncidentIndicationDecorator_validateIncident(urgency) ==
  IF urgency = "low"
  THEN [info |-> <<>>, ret |-> JsUndefined,
        error |-> "Cannot create indication for low urgency"]
  ELSE [info |-> <<"Incident validation passed">>, ret |-> JsUndefined,
        error |-> "none"]

\* IncidentIndicationDecorator.createIndication(): the queue and the log
\* after the call and the error thrown.  It calls this.validateIncident,
\* which no class defines (the method is _validateIncident): the call
\* throws a TypeError before anything else happens.
IncidentIndicationDecorator_createIndication(this, queue, info, urgency) ==
  IF "validateIncident" \notin Indication_methods("IncidentIndicationDecorator")
  THEN [queue |-> queue, info |-> info, error |-> "TypeError"]
  ELSE LET v == IncidentIndicationDecorator_validateIncident(urgency) IN
       IF v.error # "none"
       THEN [queue |-> queue, info |-> info, error |-> v.error]
       ELSE IF ~ToBoolean(v.ret)
       THEN [queue |-> queue,
             info |-> info \o v.info \o
                      <<"Indication not created: invalid incident urgency">>,
             error |-> "none"]
       ELSE [queue |-> TaskIndicationDecorator_createIndication(
                         queue, this.eventName, this.tableId, urgency),
             info |-> info \o v.info \o <<"Sending notification about incident">>,
             error |-> "none"]

\* requestIndication.createIndication(): RequestIndicationDecorator defines
\* createRequest, not createIndication, so the call runs
\* TaskIndicationDecorator.createIndication with no arguments: eventName
\* and tableId are undefined.
RequestIndicationDecorator_createIndication(this, queue, info, urgency) ==
  [queue |-> TaskIndicationDecorator_createIndication(
               queue, JsUndefined, JsUndefined, urgency),
   info |-> info, error |-> "none"]

IndFrame == UNCHANGED <<calcVars, dbVars, cfgVars, csVars, obsVars, txVars,
    cofVars, mcVars, apVars, apiVars, bvVars, fpVars, cartVars, fvVars,
    soVars, rbVars, guiVars, lgVars, tkVars, rcVars, stVars>>

\* const baseIndication = new TaskIndication(taskId), decorated for the
\* incident and for the request with the custom parameters.
IndInit ==
  /\ indUrgency = "high"
  /\ indIncident = IncidentIndicationDecorator_new(
       [eventName |-> JsString("custom-incident-event"),
        tableId |-> JsString("custom_table_id")])
  /\ indRequest = RequestIndicationDecorator_new(
       [eventName |-> JsString("custom-request-event"),
        tableId |-> JsString("custom_table_id")])
  /\ indQueue = <<>>
  /\ indInfo = <<>>
  /\ indLog = <<>>

\* The task record gets another urgency.
Task_setUrgency ==
  \E urgency \in Urgencies :
    /\ indUrgency' = urgency
    /\ UNCHANGED <<indIncident, indRequest, indQueue, indInfo, indLog>>
    /\ IndFrame

\* incidentIndication = new IncidentIndicationDecorator(baseIndication, config)
IncidentIndicationDecorator_new_call ==
  \E config \in IncidentConfigs :
    /\ indIncident' = IncidentIndicationDecorator_new(config)
    /\ UNCHANGED <<indUrgency, indRequest, indQueue, indInfo, indLog>>
    /\ IndFrame

\* requestIndication = new RequestIndicationDecorator(baseIndication, config)
RequestIndicationDecorator_new_call ==
  \E config \in RequestConfigs :
    /\ indRequest' = RequestIndicationDecorator_new(config)
    /\ UNCHANGED <<indUrgency, indIncident, indQueue, indInfo, indLog>>
    /\ IndFrame

\* incidentIndication.createIndication()
IncidentIndicationDecorator_createIndication_call ==
  LET r == IncidentIndicationDecorator_createIndication(
             indIncident, indQueue, indInfo, indUrgency) IN
  /\ Len(indLog) < MaxIndCalls
  /\ indQueue' = r.queue
  /\ indInfo' = r.info
  /\ indLog' = Append(indLog,
       [op |-> "incident", urgency |-> indUrgency, this |-> indIncident,
        enqueued |-> SubSeq(r.queue, Len(indQueue) + 1, Len(r.queue)),
        info |-> SubSeq(r.info, Len(indInfo) + 1, Len(r.info)),
        error |-> r.error])
  /\ UNCHANGED <<indUrgency, indIncident, indRequest>>
  /\ IndFrame

\* requestIndication.createIndication()
RequestIndicationDecorator_createIndication_call ==
  LET r == RequestIndicationDecorator_createIndication(
             indRequest, indQueue, indInfo, indUrgency) IN
  /\ Len(indLog) < MaxIndCalls
  /\ indQueue' = r.queue
  /\ indInfo' = r.info
  /\ indLog' = Append(indLog,
       [op |-> "request", urgency |-> indUrgency, this |-> indRequest,
        enqueued |-> SubSeq(r.queue, Len(indQueue) + 1, Len(r.queue)),
        info |-> SubSeq(r.info, Len(indInfo) + 1, Len(r.info)),
        error |-> r.error])
  /\ UNCHANGED <<indUrgency, indIncident, indRequest>>
  /\ IndFrame

NextInd ==
  \/ Task_setUrgency
  \/ IncidentIndicationDecorator_new_call
  \/ RequestIndicationDecorator_new_call
  \/ IncidentIndicationDecorator_createIndication_call
  \/ RequestIndicationDecorator_createIndication_call

\* C23: IncidentIndicationDecorator.createIndication() validates the
\* urgency first, then enqueues exactly one event through the wrapped
\* TaskIndication with the decorator's eventName and tableId, then sends
\* the incident notification; with urgency 'low' no event is enqueued and
\* no notification is sent.
C23_IncidentValidatesEnqueuesNotifies ==
  \A i \in DOMAIN indLog :
    LET c == indLog[i] IN
    c.op = "incident" =>
      IF c.urgency = "low"
      THEN c.enqueued = <<>> /\ c.info = <<>>
      ELSE /\ c.enqueued =
                << <<c.this.eventName, c.this.tableId, IndTaskId, c.urgency>> >>
           /\ c.info = <<"Incident validation passed",
                         "Sending notification about incident">>

\* C24: every event enqueued by createIndication() on a
\* RequestIndicationDecorator carries the decorator's eventName and
\* tableId (the config values when given, otherwise 'itsm-request-sla' and
\* '156950616617772294'), and the call runs the request validation before
\* and the request notification after the event is enqueued.
C24_RequestEventCarriesDecoratorNames ==
  \A i \in DOMAIN indLog :
    LET c == indLog[i] IN
    c.op = "request" =>
      /\ \A k \in DOMAIN c.enqueued :
           /\ c.enqueued[k][1] = c.this.eventName
           /\ c.enqueued[k][2] = c.this.tableId
      /\ c.enqueued # <<>> =>
           c.info = <<"Request validation passed",
                      "Sending notification about request">>

(***************************************************************************)
(* Adapter 2: RectangleAdapter over Rectangle.  Coordinates are integers.  *)
(***************************************************************************)
MaxCoord == 1

CoordsX == (0 - MaxCoord .. MaxCoord) \cup {10, 30}
CoordsY == (0 .. MaxCoord) \cup {20, 40}

Math_min(a, b) == IF a < b THEN a ELSE b

Math_absIdentity(a) == a
Math_abs(a) == IF a < 0 THEN 0 - a ELSE a

\* rectangle.display(x, y, w, h): the rectangle named by the console line.
Rectangle_display(x, y, w, h) == [x |-> x, y |-> y, w |-> w, h |-> h]

\* draw(x1, y1, x2, y2): the display calls made on this.rectangle.
RectangleAdapter_draw(x1, y1, x2, y2) ==
  LET x == Math_min(x1, x2)
      y == Math_min(y1, y2)
      width == Math_abs(x2 - x1)
      height == Math_abs(y2 - y1)
  IN  <<Rectangle_display(x, y, width, height)>>

RcFrame == UNCHANGED <<calcVars, dbVars, cfgVars, csVars, obsVars, txVars,
    cofVars, mcVars, apVars, apiVars, bvVars, fpVars, cartVars, fvVars,
    soVars, rbVars, guiVars, lgVars, tkVars, indVars, stVars>>

\* const rectangleAdapter = new RectangleAdapter(new Rectangle())
RcInit ==
  /\ rcArgs = <<0, 0, 0, 0>>
  /\ rcOut = <<>>
  /\ rcBack = <<>>

\* rectangleAdapter.draw(x1, y1, x2, y2), the first rectangle or the next
\* one after a rectangle was drawn from both corners
RectangleAdapter_draw_call ==
  \E x1 \in CoordsX, x2 \in CoordsX, y1 \in CoordsY, y2 \in CoordsY :
    /\ rcOut = <<>> \/ rcBack # <<>>
    /\ rcArgs' = <<x1, y1, x2, y2>>
    /\ rcOut' = RectangleAdapter_draw(x1, y1, x2, y2)
    /\ rcBack' = <<>>
    /\ RcFrame

\* rectangleAdapter.draw(x2, y2, x1, y1) with the corners of the last call
RectangleAdapter_drawBack_call ==
  /\ rcOut # <<>>
  /\ rcBack = <<>>
  /\ rcBack' = RectangleAdapter_draw(rcArgs[3], rcArgs[4], rcArgs[1], rcArgs[2])
  /\ UNCHANGED <<rcArgs, rcOut>>
  /\ RcFrame

NextRc == RectangleAdapter_draw_call \/ RectangleAdapter_drawBack_call

\* C25: draw(x1, y1, x2, y2) calls rectangle.display exactly once with
\* x = min(x1, x2), y = min(y1, y2), width = |x2 - x1|, height =
\* |y2 - y1|; width and height are never negative, and draw(x1, y1, x2, y2)
\* and draw(x2, y2, x1, y1) display the same rectangle.
C25_DisplaysNormalisedRectangle ==
  /\ rcOut # <<>> =>
       /\ Len(rcOut) = 1
       /\ rcOut[1].x <= rcArgs[1] /\ rcOut[1].x <= rcArgs[3]
       /\ rcOut[1].x \in {rcArgs[1], rcArgs[3]}
       /\ rcOut[1].y <= rcArgs[2] /\ rcOut[1].y <= rcArgs[4]
       /\ rcOut[1].y \in {rcArgs[2], rcArgs[4]}
       /\ rcOut[1].w >= 0 /\ rcOut[1].h >= 0
       /\ rcOut[1].w \in {rcArgs[3] - rcArgs[1], rcArgs[1] - rcArgs[3]}
       /\ rcOut[1].h \in {rcArgs[4] - rcArgs[2], rcArgs[2] - rcArgs[4]}
       /\ rcArgs = <<10, 20, 30, 40>> =>
            rcOut[1] = [x |-> 10, y |-> 20, w |-> 20, h |-> 20]
  /\ rcBack # <<>> => rcBack = rcOut

C25_Witness ==
  /\ rcArgs = <<30, 40, 10, 20>>
  /\ rcOut = <<[x |-> 10, y |-> 20, w |-> 20, h |-> 20]>>
  /\ rcBack = rcOut

(***************************************************************************)
(* Observer 3, the counters: the stream of the usage example, a Subject    *)
(* with the Observers obs1 (state 1) and obs2 (state 10).  Observer.update *)
(* never touches the subject, so a fire is one step.                       *)
(***************************************************************************)
MaxFires == 4

StreamObservers == {"obs1", "obs2"}
\* {type: 'PLUS'}, {type: 'MINUS'}, {type: 'MULTI_PLUS', value: 10} and an
\* action of a type update does not know; value counts for MULTI_PLUS only.
StreamActions ==
  {[type |-> "PLUS", value |-> 0], [type |-> "MINUS", value |-> 0],
   [type |-> "MULTI_PLUS", value |-> 10], [type |-> "RESET", value |-> 0]}

\* new Observer(state)
Observer_new(state) == [state |-> state, initialState |-> state]

\* observer.update(action)
Observer_updateNoReset(obs, action) ==
  CASE action.type = "PLUS" -> [obs EXCEPT !.state = obs.state + 1]
    [] action.type = "MINUS" -> [obs EXCEPT !.state = obs.state - 1]
    [] action.type = "MULTI_PLUS" ->
         [obs EXCEPT !.state = obs.state + action.value]
    [] OTHER -> obs
Observer_update(obs, action) ==
  CASE action.type = "PLUS" -> [obs EXCEPT !.state = obs.state + 1]
    [] action.type = "MINUS" -> [obs EXCEPT !.state = obs.state - 1]
    [] action.type = "MULTI_PLUS" ->
         [obs EXCEPT !.state = obs.state + action.value]
    [] OTHER -> [obs EXCEPT !.state = obs.initialState]

\* this.observers.forEach(observer => observer.update(action)): the
\* observers after update has run once per element of the array.
RECURSIVE Subject_fire_forEach(_, _, _)
Subject_fire_forEach(observers, objs, action) ==
  IF observers = <<>> THEN objs
  ELSE Subject_fire_forEach(Tail(observers),
         [objs EXCEPT ![Head(observers)] = Observer_update(@, action)], action)

StFrame == UNCHANGED <<calcVars, dbVars, cfgVars, csVars, obsVars, txVars,
    cofVars, mcVars, apVars, apiVars, bvVars, fpVars, cartVars, fvVars,
    soVars, rbVars, guiVars, lgVars, tkVars, indVars, rcVars>>

\* stream = new Subject(); obs1 = new Observer(); obs2 = new Observer(10);
\* stream.subscribe(obs1); stream.subscribe(obs2)
StInit ==
  /\ stObservers = <<"obs1", "obs2">>
  /\ stObjs = [o \in StreamObservers |->
                 IF o = "obs1" THEN Observer_new(1) ELSE Observer_new(10)]
  /\ stFired = <<>>
  /\ stThroughout = StreamObservers

\* stream.fire(action)
Stream_fire ==
  \E action \in StreamActions :
    /\ Len(stFired) < MaxFires
    /\ stObjs' = Subject_fire_forEach(stObservers, stObjs, action)
    /\ stFired' = Append(stFired, action)
    /\ UNCHANGED <<stObservers, stThroughout>>
    /\ StFrame

\* stream.unsubscribe(o)
Stream_unsubscribe ==
  \E o \in StreamObservers :
    /\ stObservers' = Array_filterNot(stObservers, o)
    /\ stThroughout' = stThroughout \ {o}
    /\ UNCHANGED <<stObjs, stFired>>
    /\ StFrame

NextSt == Stream_fire \/ Stream_unsubscribe

\* The state the claim gives for an observer created with state initial
\* after the actions of fired: from the last action of unknown type on
\* (from the start when there is none) +1 per PLUS, -1 per MINUS, +value
\* per MULTI_PLUS.
RECURSIVE StExpected(_, _)
StExpected(initial, fired) ==
  IF fired = <<>> THEN initial
  ELSE LET a == fired[Len(fired)]
           before == StExpected(initial, SubSeq(fired, 1, Len(fired) - 1))
       IN  CASE a.type = "PLUS" -> before + 1
             [] a.type = "MINUS" -> before - 1
             [] a.type = "MULTI_PLUS" -> before + a.value
             [] OTHER -> initial

Init ==
  /\ CalcInit /\ DbInit /\ CfgInit /\ CsInit /\ ObsInit
  /\ TxInit /\ CofInit /\ McInit /\ ApInit /\ ApiInit
  /\ BevInit /\ FileInit /\ CartInit /\ FvInit /\ SoInit
  /\ RbInit /\ GuiInit /\ LgInit /\ TkInit /\ IndInit
  /\ RcInit /\ StInit

SpecCalc == Init /\ [][NextCalc]_vars
SpecDatabase == Init /\ [][NextDatabase]_vars
SpecConfig == Init /\ [][NextConfig]_vars
SpecCache == Init /\ [][NextCache]_vars
SpecObserver == Init /\ [][NextObserver]_vars
SpecText == Init /\ [][NextText]_vars
SpecCoffee == Init /\ [][NextCoffee]_vars
SpecMemo == Init /\ [][NextMemo]_vars
SpecAudio == Init /\ [][NextAudio]_vars
SpecApi == Init /\ [][NextApi]_vars
SpecBev == Init /\ [][NextBev]_vars
SpecFile == Init /\ [][NextFile]_vars
SpecCart == Init /\ [][NextCart]_vars
SpecFv == Init /\ [][NextFv]_vars
SpecSo == Init /\ [][NextSo]_vars
SpecRb == Init /\ [][NextRb]_vars
SpecGui == Init /\ [][NextGui]_vars
SpecLg == Init /\ [][NextLg]_vars
SpecTk == Init /\ [][NextTk]_vars
SpecInd == Init /\ [][NextInd]_vars
SpecRc == Init /\ [][NextRc]_vars
SpecSt == Init /\ [][NextSt]_vars

====
